---- MODULE Spec2Model ----
(***************************************************************************)
(* Post-event analytics engine of EventSentix (PostEventAnalyzer) and the  *)
(* handlers around it that read or write the records it aggregates.        *)
(*                                                                         *)
(* Numbers.  Times are integer milliseconds relative to a model epoch.     *)
(* Sentiment scores are integer hundredths (-100..100 for [-1, 1]).        *)
(* A JavaScript percentage count / total * 100 is kept as the exact        *)
(* fraction [num |-> 100 * count, den |-> total]; comparisons are made by   *)
(* cross multiplication, so floating point rounding error is abstracted.   *)
(***************************************************************************)
EXTENDS Integers, Sequences, FiniteSets, TLC

VARIABLES
    clock,      \* the wall clock read by new Date()
    db,         \* the stored records: feedback, alerts, issues, sentiment
    writes,     \* number of writes made to db so far (history)
    pc,         \* per call of generatePostEventReport: where it is
    arg,        \* per call: [eventId, force]
    callNow,    \* per call: the value of `now` taken on line 267
    agg,        \* per call, per aggregator: the aggregator's position
    out,        \* per call, per aggregator: the value it resolved with
    trace,      \* per call: the stages run so far, in order (history)
    span,       \* per call: writes at the call and at its return (history)
    result,     \* per call: what the call returned or threw
    avail,      \* response of checkReportAvailability
    seen,       \* analyzeFeedback's loop: the records visited so far
    acc,        \* analyzeFeedback's loop: its accumulators
    fbOut,      \* analyzeFeedback's loop: the value returned
    resp,       \* per call: the HTTP response the controller sent
    unitIn,     \* a stage run on its own: the records or values given to it
    unitOut,    \* a stage run on its own: the value it returned
    connectedClients,  \* the Map of socket ids by event id
    sockets,    \* per socket: whether it is connected, and its pending joins
    activeStreams,     \* the Map of the recorded polling timer by event id
    timers,     \* the timers setInterval made: their event, and whether they run
    starts      \* per call of startEventStream: where it is

vars == <<clock, db, writes, pc, arg, callNow, agg, out, trace, span, result,
          avail, seen, acc, fbOut, resp, unitIn, unitOut, connectedClients, sockets,
          activeStreams, timers, starts>>

callVars == <<pc, arg, callNow, agg, out, trace, span, result, resp>>
loopVars == <<seen, acc, fbOut>>
unitVars == <<unitIn, unitOut>>
liveVars == <<connectedClients, sockets, activeStreams, timers, starts>>

----------------------------------------------------------------------------
(* Bounds of the model *)

\* feedback records the ingestion handlers may store in one behaviour
MaxFeedback == 1
\* records in a feedback stream given to analyzeFeedback's loop
MaxStream == 6
\* positive feedback records of an event whose records are summarized
MaxPositive == 7
\* records of any other one kind of an event whose records are summarized
MaxOther == 2
\* alerts of an event given to analyzeAlerts
MaxAlerts == 5
\* issues of an event given to analyzeIssues
MaxIssues == 5
\* hourly sentiment records of any kind given to analyzeSentimentTrends
MaxMixed == 4
\* hourly sentiment records with enough feedback given to it
MaxPeriods == 7
\* feedback records of one class, and typed negative records, in a report
MaxMix == 4
\* alerts in a report
MaxAlertMix == 10

\* the timers setInterval may make in one behaviour
MaxTimers == 3

\* the status updates of alerts in one behaviour
MaxUpdates == 4

----------------------------------------------------------------------------
(* Generic helpers *)

None == "none"

Min2(a, b) == IF a < b THEN a ELSE b
Abs(x) == IF x < 0 THEN -x ELSE x

RECURSIVE SumSeq(_)
SumSeq(s) == IF s = <<>> THEN 0 ELSE Head(s) + SumSeq(Tail(s))

\* Array.prototype.slice(0, n)
Slice(s, n) == SubSeq(s, 1, Min2(n, Len(s)))

\* Array.prototype.sort, stable (V8): s holds [k, v] pairs and is ordered by
\* ascending k, equal keys keeping their order; the result holds the v's
RECURSIVE InsertByKey(_, _)
InsertByKey(s, x) ==
    IF s = <<>> THEN <<x>>
    ELSE IF x.k < Head(s).k THEN <<x>> \o s
         ELSE <<Head(s)>> \o InsertByKey(Tail(s), x)

RECURSIVE SortPairs(_)
SortPairs(s) ==
    IF s = <<>> THEN <<>>
    ELSE InsertByKey(SortPairs(SubSeq(s, 1, Len(s) - 1)), s[Len(s)])

Values(s) == [i \in 1..Len(s) |-> s[i].v]

\* sort((a, b) => a.score - b.score)
SortByScoreAscending(s) ==
    Values(SortPairs([i \in 1..Len(s) |-> [k |-> s[i].score, v |-> s[i]]]))

\* sort((a, b) => b.score - a.score)
SortByScoreDescending(s) ==
    Values(SortPairs([i \in 1..Len(s) |-> [k |-> -s[i].score, v |-> s[i]]]))

\* sort((a, b) => b.count - a.count)
SortByCountDescending(s) ==
    Values(SortPairs([i \in 1..Len(s) |-> [k |-> -s[i].count, v |-> s[i]]]))

\* the percentage with an empty total reported as 100
PctEmptyFull(count, total) ==
    IF total > 0 THEN [num |-> 100 * count, den |-> total]
    ELSE [num |-> 100, den |-> 1]

\* count / total * 100 guarded against total = 0, as an exact fraction
Pct(count, total) ==
    IF total > 0 THEN [num |-> 100 * count, den |-> total]
    ELSE [num |-> 0, den |-> 1]

\* a percentage compared with <= where the code has <
PctLtInclusive(p, n) == p.num <= n * p.den

PctGt(p, n) == p.num > n * p.den
PctLt(p, n) == p.num < n * p.den
PctEq(p, n) == p.num = n * p.den

----------------------------------------------------------------------------
(* Availability gate *)

DayMs == 24 * 60 * 60 * 1000

EventEnded(now, endDate) == now > endDate

\* NearEnd with the boundary taken in: exactly 24 hours counts as near
NearEndInclusive(now, endDate) == Abs(now - endDate) <= DayMs

NearEnd(now, endDate) == Abs(now - endDate) < DayMs

\* the gate with options.force left out of the condition
GateIgnoresForce(force, now, endDate) ==
    EventEnded(now, endDate) \/ NearEnd(now, endDate)

\* the condition of line 274 negated: the call may proceed
GateAllows(force, now, endDate) ==
    ~(~force /\ ~EventEnded(now, endDate) /\ ~NearEnd(now, endDate))

----------------------------------------------------------------------------
(* Feedback aggregator *)

SentimentClasses == {"positive", "neutral", "negative"}

TopK == 5

\* the entry pushed into a top-k buffer (createdAt is carried by id)
TopEntry(item) ==
    [id |-> item.id, text |-> item.text, source |-> item.source, score |-> item.score]

\* reduce((min, fb) => fb.score < min.score ? fb : min, buf[0]) and indexOf:
\* the first position holding the lowest score
LowestIndex(buf) ==
    CHOOSE i \in 1..Len(buf) :
        /\ \A j \in 1..Len(buf) : buf[i].score <= buf[j].score
        /\ \A j \in 1..(i - 1) : buf[j].score > buf[i].score

\* the first position holding the highest score
HighestIndex(buf) ==
    CHOOSE i \in 1..Len(buf) :
        /\ \A j \in 1..Len(buf) : buf[i].score >= buf[j].score
        /\ \A j \in 1..(i - 1) : buf[j].score < buf[i].score

\* the buffer without its capacity check
PushTopPositiveUnbounded(buf, item) == Append(buf, TopEntry(item))

PushTopPositive(buf, item) ==
    IF Len(buf) < TopK THEN Append(buf, TopEntry(item))
    ELSE LET index == LowestIndex(buf)
         IN  IF item.score > buf[index].score
             THEN [buf EXCEPT ![index] = TopEntry(item)]
             ELSE buf

\* the negative buffer replacing its worst entry by one that is no better
PushTopNegativeOnTie(buf, item) ==
    IF Len(buf) < TopK THEN Append(buf, TopEntry(item))
    ELSE LET index == HighestIndex(buf)
         IN  IF item.score <= buf[index].score
             THEN [buf EXCEPT ![index] = TopEntry(item)]
             ELSE buf

PushTopNegative(buf, item) ==
    IF Len(buf) < TopK THEN Append(buf, TopEntry(item))
    ELSE LET index == HighestIndex(buf)
         IN  IF item.score < buf[index].score
             THEN [buf EXCEPT ![index] = TopEntry(item)]
             ELSE buf

\* obj[key] = (obj[key] || 0) + 1 on an object whose keys keep insertion order
Bump(counts, key) ==
    IF \E i \in 1..Len(counts) : counts[i].key = key
    THEN [i \in 1..Len(counts) |->
            IF counts[i].key = key
            THEN [counts[i] EXCEPT !.count = @ + 1] ELSE counts[i]]
    ELSE Append(counts, [key |-> key, count |-> 1])

\* the accumulators declared on lines 346-352
FeedbackInit ==
    [ sentimentCounts |-> [s \in SentimentClasses |-> 0],
      nanKeys |-> {},
      sourceCounts |-> <<>>,
      issueTypes |-> <<>>,
      topPositiveFeedback |-> <<>>,
      topNegativeFeedback |-> <<>>,
      totalSentimentScore |-> 0 ]

\* sentimentCounts[item.sentiment]++ : a key that is not one of the three
\* classes is undefined, and undefined++ stores NaN under that key
CountSentiment(a, sentiment) ==
    IF sentiment \in SentimentClasses
    THEN [a EXCEPT !.sentimentCounts[sentiment] = @ + 1]
    ELSE [a EXCEPT !.nanKeys = @ \cup {sentiment}]

\* the body of feedback.forEach, lines 354-427
FeedbackVisit(a, item) ==
    LET a1 == CountSentiment(a, item.sentiment)
        a2 == [a1 EXCEPT !.totalSentimentScore = @ + item.score,
                         !.sourceCounts = Bump(@, item.source)]
        a3 == IF item.sentiment = "negative" /\ item.issueType # None
              THEN [a2 EXCEPT !.issueTypes = Bump(@, item.issueType)]
              ELSE a2
    IN  IF item.sentiment = "positive"
        THEN [a3 EXCEPT !.topPositiveFeedback = PushTopPositive(@, item)]
        ELSE IF item.sentiment = "negative"
        THEN [a3 EXCEPT !.topNegativeFeedback = PushTopNegative(@, item)]
        ELSE a3

\* Number.prototype.toFixed of num / den (den > 0) in units of 1 / scale:
\* the nearest unit, a tie going away from zero
ToFixed(num, den, scale) ==
    LET mag == (2 * scale * Abs(num) + den) \div (2 * den)
    IN  IF num < 0 THEN -mag ELSE mag

\* two decimals kept by cutting the rest off
ToFixed2Cut(num, den) == (100 * num) \div den

\* toFixed(2), in hundredths
ToFixed2(num, den) == ToFixed(num, den, 100)

\* lines 429-481: the value analyzeFeedback returns for the accumulators a
\* after `total` records
FeedbackResult(a, total) ==
    LET pct == [s \in SentimentClasses |-> Pct(a.sentimentCounts[s], total)]
        negativeTotal == a.sentimentCounts["negative"]
        topIssues ==
            SortByCountDescending(
                [i \in 1..Len(a.issueTypes) |->
                    [issue |-> a.issueTypes[i].key,
                     count |-> a.issueTypes[i].count,
                     percentage |-> Pct(a.issueTypes[i].count, negativeTotal)]])
    IN  [ total |-> total,
          sentimentCounts |-> a.sentimentCounts,
          nanKeys |-> a.nanKeys,
          sentimentPercentages |-> pct,
          sourceCounts |-> a.sourceCounts,
          sourcePercentages |->
              [i \in 1..Len(a.sourceCounts) |->
                  [key |-> a.sourceCounts[i].key,
                   percentage |-> Pct(a.sourceCounts[i].count, total)]],
          issueTypes |-> a.issueTypes,
          topIssues |-> Slice(topIssues, 5),
          topPositiveFeedback |-> SortByScoreDescending(a.topPositiveFeedback),
          topNegativeFeedback |-> SortByScoreAscending(a.topNegativeFeedback),
          averageSentimentScore |->
              IF total > 0 THEN [num |-> a.totalSentimentScore, den |-> total]
              ELSE [num |-> 0, den |-> 1],
          \* (positive% - negative%) / 100 = (positive - negative) / total
          netSentimentScore |->
              IF total > 0
              THEN ToFixed2(a.sentimentCounts["positive"] - a.sentimentCounts["negative"],
                            total)
              ELSE 0 ]

RECURSIVE FeedbackFold(_, _)
FeedbackFold(a, items) ==
    IF items = <<>> THEN a
    ELSE FeedbackFold(FeedbackVisit(a, Head(items)), Tail(items))

\* analyzeFeedback on the records Feedback.find returned
AnalyzeFeedbackOf(items) == FeedbackResult(FeedbackFold(FeedbackInit, items), Len(items))

----------------------------------------------------------------------------
(* Alert aggregator.  An optional timestamp is <<>> (null) or <<t>>. *)

AlertTypeKeys == {"sentiment", "issue", "trend", "system"}
SeverityKeys == {"low", "medium", "high", "critical"}
AlertStatusKeys == {"new", "acknowledged", "inProgress", "resolved", "ignored"}

\* counts[value]++ for each of `values` on an object literal that declares
\* the keys `keys` as 0:
\* any other key ends as NaN and is collected in nan
CountKeys(values, keys) ==
    [ counts |-> [k \in keys |-> Cardinality({i \in 1..Len(values) : values[i] = k})],
      nan |-> {values[i] : i \in 1..Len(values)} \ keys ]

\* obj[key] = (obj[key] || 0) + 1 over all items, keys in insertion order
RECURSIVE BumpAll(_, _)
BumpAll(counts, keys) ==
    IF keys = <<>> THEN counts ELSE BumpAll(Bump(counts, Head(keys)), Tail(keys))

\* entries of a counting object as {key, count, percentage of total}, by
\* count descending, the first five
TopByCount(counts, total) ==
    Slice(SortByCountDescending(
              [i \in 1..Len(counts) |->
                  [key |-> counts[i].key, count |-> counts[i].count,
                   percentage |-> Pct(counts[i].count, total)]]), 5)

\* new Date(t).toISOString().split('T')[0], as a day number
DayOf(t) == t \div DayMs

\* every alert that carries a resolution timestamp, whatever its status
TimedAny(r) == r.resolvedAt # <<>>

\* status === 'resolved' && resolvedAt
TimedResolved(r) == r.status = "resolved" /\ r.resolvedAt # <<>>

\* Math.floor(sum / n / 1000 / 60), 0 when n = 0
AverageMinutes(sum, n) == IF n > 0 THEN sum \div (n * 60000) ELSE 0

\* lines 541-559 and 572-574: one entry per creation day, in the order of
\* the days' first alerts, then sorted by date.  A day is its day number
\* (DayOf) where the code has the date string of toISOString()
AlertTimeline(alerts) ==
    LET days == BumpAll(<<>>, [i \in 1..Len(alerts) |-> DayOf(alerts[i].createdAt)])
        Entry(d) ==
            LET mine == SelectSeq(alerts, LAMBDA r : DayOf(r.createdAt) = d)
                types == CountKeys([i \in 1..Len(mine) |-> mine[i].type], AlertTypeKeys)
                severities ==
                    CountKeys([i \in 1..Len(mine) |-> mine[i].severity], SeverityKeys)
            IN  [ date |-> d,
                  count |-> Len(mine),
                  resolved |-> Len(SelectSeq(mine, LAMBDA r : r.status = "resolved")),
                  byType |-> types.counts,
                  byTypeNaN |-> types.nan,
                  bySeverity |-> severities.counts ]
    IN  Values(SortPairs([i \in 1..Len(days) |->
                             [k |-> days[i].key, v |-> Entry(days[i].key)]]))

\* analyzeAlerts on the records Alert.find returned
AnalyzeAlertsOf(alerts) ==
    LET types == CountKeys([i \in 1..Len(alerts) |-> alerts[i].type], AlertTypeKeys)
        severities ==
            CountKeys([i \in 1..Len(alerts) |-> alerts[i].severity], SeverityKeys)
        statuses ==
            CountKeys([i \in 1..Len(alerts) |-> alerts[i].status], AlertStatusKeys)
        timed == SelectSeq(alerts, TimedResolved)
        IsCritical(r) == r.severity = "critical"
        critical == SelectSeq(timed, IsCritical)
        ResponseTimes(rs) == [i \in 1..Len(rs) |-> rs[i].resolvedAt[1] - rs[i].createdAt]
        totalAlerts == Len(alerts)
        categoryCounts == BumpAll(<<>>, [i \in 1..Len(alerts) |-> alerts[i].category])
    IN  [ total |-> totalAlerts,
          typeCounts |-> types.counts,
          typeNaN |-> types.nan,
          severityCounts |-> severities.counts,
          categoryCounts |-> categoryCounts,
          statusCounts |-> statuses.counts,
          topCategories |-> TopByCount(categoryCounts, totalAlerts),
          resolutionRate |-> Pct(statuses.counts["resolved"], totalAlerts),
          averageResponseTimeMinutes |->
              AverageMinutes(SumSeq(ResponseTimes(timed)), Len(timed)),
          criticalResponseTimeMinutes |->
              AverageMinutes(SumSeq(ResponseTimes(critical)), Len(critical)),
          timeline |-> AlertTimeline(alerts) ]

----------------------------------------------------------------------------
(* Issue aggregator *)

IssueStatusKeys == {"detected", "confirmed", "inProgress", "resolved", "falsePositive"}

\* the closed issues without the false positives
ClosedCountResolved(statusCounts) == statusCounts["resolved"]

\* statusCounts.resolved + statusCounts.falsePositive
ClosedCount(statusCounts) == statusCounts["resolved"] + statusCounts["falsePositive"]

AnalyzeIssuesOf(issues) ==
    LET severities ==
            CountKeys([i \in 1..Len(issues) |-> issues[i].severity], SeverityKeys)
        statuses ==
            CountKeys([i \in 1..Len(issues) |-> issues[i].status], IssueStatusKeys)
        timed == SelectSeq(issues, TimedResolved)
        totalIssues == Len(issues)
        typeCounts == BumpAll(<<>>, [i \in 1..Len(issues) |-> issues[i].type])
        HasLocation(r) == r.location # None
        located == SelectSeq(issues, HasLocation)
        locationCounts == BumpAll(<<>>, [i \in 1..Len(located) |-> located[i].location])
        closed == ClosedCount(statuses.counts)
    IN  [ total |-> totalIssues,
          typeCounts |-> typeCounts,
          severityCounts |-> severities.counts,
          statusCounts |-> statuses.counts,
          locationCounts |-> locationCounts,
          topIssueTypes |-> TopByCount(typeCounts, totalIssues),
          topLocations |-> TopByCount(locationCounts, totalIssues),
          resolutionRate |-> Pct(closed, totalIssues),
          averageResolutionTimeMinutes |->
              AverageMinutes(
                  SumSeq([i \in 1..Len(timed) |-> timed[i].resolvedAt[1] - timed[i].createdAt]),
                  Len(timed)),
          unresolvedCount |-> totalIssues - closed ]

----------------------------------------------------------------------------
(* Sentiment trend analyzer.  Calendar days are day numbers t \div DayMs,  *)
(* the date toISOString() prints, for a server whose local time is UTC.    *)

CeilDiv(a, b) == -((-a) \div b)

\* Math.ceil((endDate - startDate) / DayMs) + 1
EventDayCount(event) == CeilDiv(event.endDate - event.startDate, DayMs) + 1

\* lines 738-755: one timeline entry of a sentiment record
TimelineEntry(record) ==
    [ kind |-> "period",
      timestamp |-> record.timestamp,
      positive |-> record.positive,
      neutral |-> record.neutral,
      negative |-> record.negative,
      total |-> record.total,
      sentiment |-> [ positive |-> Pct(record.positive, record.total),
                      neutral |-> Pct(record.neutral, record.total),
                      negative |-> Pct(record.negative, record.total) ] ]

Timeline(records) == [i \in 1..Len(records) |-> TimelineEntry(records[i])]

\* lines 780-801: one zero entry per event day, overwritten by the last
\* daily record of that day
DailyVolume(event, daily) ==
    LET n == EventDayCount(event)
        first == DayOf(event.startDate)
        Hits(d) == {i \in 1..Len(daily) : DayOf(daily[i].timestamp) = d}
        Last(S) == CHOOSE i \in S : \A j \in S : j <= i
    IN  [ k \in 1..(IF n > 0 THEN n ELSE 0) |->
            LET d == first + k - 1
            IN  IF Hits(d) = {}
                THEN [date |-> d, total |-> 0, positive |-> 0, neutral |-> 0, negative |-> 0]
                ELSE LET r == daily[Last(Hits(d))]
                     IN  [date |-> d, total |-> r.total, positive |-> r.positive,
                          neutral |-> r.neutral, negative |-> r.negative] ]

\* reduce((max, period) => period.total > max.total ? period : max, {total: 0})
RECURSIVE PeakVolume(_, _)
PeakVolume(periods, max) ==
    IF periods = <<>> THEN max
    ELSE PeakVolume(Tail(periods),
                    IF Head(periods).total > max.total THEN Head(periods) ELSE max)

\* reduce((max, period) => period[f] / period.total > max[f] / max.total
\*                           ? period : max, {[f]: 0, total: 1})
RECURSIVE PeakRatio(_, _, _)
PeakRatio(periods, max, f) ==
    IF periods = <<>> THEN max
    ELSE LET p == Head(periods)
         IN  PeakRatio(Tail(periods),
                       IF p[f] * max.total > max[f] * p.total THEN p ELSE max, f)

SignificantTotal == 5
ChangeThreshold == 15

\* every period taken as significant
SignificantAny(period) == period.total >= 0

Significant(period) == period.total >= SignificantTotal

\* a change of more than the threshold only
IsChangeStrict(num, den) == Abs(num) > ChangeThreshold * den

\* Math.abs(change) >= 15, for the change num / den (den > 0)
IsChange(num, den) == Abs(num) >= ChangeThreshold * den

\* the five changes found last
LastChanges(changes) ==
    SubSeq(changes, Len(changes) - Min2(5, Len(changes)) + 1, Len(changes))

\* sentimentChanges.slice(0, 5)
FirstChanges(changes) == Slice(changes, 5)

\* lines 822-842: the change between consecutive significant periods, as
\* the fraction num / den of percentage points
SentimentChanges(sig) ==
    LET Change(i) ==
            [ from |-> sig[i].timestamp,
              to |-> sig[i + 1].timestamp,
              num |-> 100 * (sig[i + 1].negative * sig[i].total
                             - sig[i].negative * sig[i + 1].total),
              den |-> sig[i].total * sig[i + 1].total ]
        all == IF Len(sig) < 2 THEN <<>> ELSE [i \in 1..(Len(sig) - 1) |-> Change(i)]
        Big(c) == IsChange(c.num, c.den)
        kept == SelectSeq(all, Big)
    IN  [ i \in 1..Len(kept) |->
            [ from |-> kept[i].from,
              to |-> kept[i].to,
              changePct |-> ToFixed(kept[i].num, kept[i].den, 10),
              direction |-> IF kept[i].num > 0 THEN "negative" ELSE "positive" ] ]

\* analyzeSentimentTrends on the event and the hourly and daily records read
AnalyzeSentimentTrendsOf(event, hourlyRecords, dailyRecords) ==
    LET hourly == Timeline(hourlyRecords)
        daily == Timeline(dailyRecords)
        sig == SelectSeq(hourly, Significant)
    IN  [ hourly |-> hourly,
          daily |-> daily,
          dailyVolume |-> DailyVolume(event, daily),
          peakVolumePeriod |-> PeakVolume(hourly, [kind |-> "placeholder", total |-> 0]),
          peakNegativePeriod |->
              PeakRatio(sig, [kind |-> "placeholder", negative |-> 0, total |-> 1],
                        "negative"),
          peakPositivePeriod |->
              PeakRatio(sig, [kind |-> "placeholder", positive |-> 0, total |-> 1],
                        "positive"),
          sentimentChanges |-> FirstChanges(SentimentChanges(sig)),
          eventDayCount |-> EventDayCount(event) ]

----------------------------------------------------------------------------
(* Executive summary scorer *)

\* Math.round of the fraction num / den (den > 0)
RoundFrac(num, den) == (2 * num + den) \div (2 * den)

\* Math.min(100, Math.max(0, x)) of a fraction
ClampPct(p) ==
    IF p.num < 0 THEN [num |-> 0, den |-> 1]
    ELSE IF p.num > 100 * p.den THEN [num |-> 100, den |-> 1]
    ELSE p

\* the blend cut to an integer by Math.floor
OverallScoreFloor(netSentimentScore, issueRate, alertRate) ==
    LET s == ClampPct([num |-> 100 + netSentimentScore, den |-> 2])
        i == ClampPct(issueRate)
        a == ClampPct(alertRate)
    IN  (4 * s.num * i.den * a.den + 3 * i.num * s.den * a.den + 3 * a.num * s.den * i.den)
            \div (10 * s.den * i.den * a.den)

\* lines 873-892.  netSentimentScore is in hundredths, so the sentiment
\* component 50 + net * 50 is the fraction (100 + h) / 2
OverallScore(netSentimentScore, issueRate, alertRate) ==
    LET s == ClampPct([num |-> 100 + netSentimentScore, den |-> 2])
        i == ClampPct(issueRate)
        a == ClampPct(alertRate)
        \* s * 0.4 + i * 0.3 + a * 0.3 over the common denominator
        num == 4 * s.num * i.den * a.den + 3 * i.num * s.den * a.den
               + 3 * a.num * s.den * i.den
        den == 10 * s.den * i.den * a.den
    IN  RoundFrac(num, den)

\* the tiers with exclusive lower bounds
SuccessLevelExclusive(overallScore) ==
    IF overallScore > 90 THEN "exceptional"
    ELSE IF overallScore > 75 THEN "successful"
    ELSE IF overallScore > 60 THEN "satisfactory"
    ELSE IF overallScore > 40 THEN "mixed"
    ELSE IF overallScore > 25 THEN "challenging"
    ELSE "problematic"

\* lines 894-908
SuccessLevel(overallScore) ==
    IF overallScore >= 90 THEN "exceptional"
    ELSE IF overallScore >= 75 THEN "successful"
    ELSE IF overallScore >= 60 THEN "satisfactory"
    ELSE IF overallScore >= 40 THEN "mixed"
    ELSE IF overallScore >= 25 THEN "challenging"
    ELSE "problematic"

\* lines 910-918: the first source with the highest count, 'direct' if none
RECURSIVE PrimarySource(_, _, _)
PrimarySource(counts, best, bestCount) ==
    IF counts = <<>> THEN best
    ELSE IF Head(counts).count > bestCount
         THEN PrimarySource(Tail(counts), Head(counts).key, Head(counts).count)
         ELSE PrimarySource(Tail(counts), best, bestCount)

GenerateExecutiveSummary(feedbackData, alertsData, issuesData, sentimentData) ==
    LET overallScore == OverallScore(feedbackData.netSentimentScore,
                                     issuesData.resolutionRate,
                                     alertsData.resolutionRate)
        pos == feedbackData.sentimentPercentages["positive"]
        neg == feedbackData.sentimentPercentages["negative"]
    IN  [ overallScore |-> overallScore,
          successLevel |-> SuccessLevel(overallScore),
          feedbackTotal |-> feedbackData.total,
          topIssueType |->
              IF Len(feedbackData.topIssues) > 0 THEN feedbackData.topIssues[1].issue
              ELSE "none",
          primarySentiment |->
              IF pos.num * neg.den > neg.num * pos.den THEN "positive" ELSE "negative",
          sentimentRatio |-> <<RoundFrac(pos.num, pos.den), RoundFrac(neg.num, neg.den)>>,
          netSentimentScore |-> feedbackData.netSentimentScore,
          primarySource |-> PrimarySource(feedbackData.sourceCounts, "direct", 0),
          alertsTotal |-> alertsData.total,
          alertsResolutionRate |->
              ToFixed(alertsData.resolutionRate.num, alertsData.resolutionRate.den, 10),
          averageAlertResponseTime |-> alertsData.averageResponseTimeMinutes,
          issuesTotal |-> issuesData.total,
          issuesResolutionRate |->
              ToFixed(issuesData.resolutionRate.num, issuesData.resolutionRate.den, 10),
          unresolvedIssuesCount |-> issuesData.unresolvedCount ]

----------------------------------------------------------------------------
(* Insight generator.  An insight is kept as its rule, type and title; the *)
(* content string is a function of the values the model keeps.             *)

\* a rule that pushes its entry twice
OneIfTwice(cond, x) == IF cond THEN <<x, x>> ELSE <<>>

OneIf(cond, x) == IF cond THEN <<x>> ELSE <<>>

Insight(rule, type, title) == [rule |-> rule, type |-> type, title |-> title]

\* the bands with their boundaries taken in
ReceptionInsightInclusive(pct) ==
    IF ~PctLt(pct["positive"], 75)
    THEN Insight("reception", "positive", "Overwhelmingly Positive Feedback")
    ELSE IF ~PctLt(pct["positive"], 60)
    THEN Insight("reception", "positive", "Generally Positive Reception")
    ELSE IF ~PctLt(pct["negative"], 50)
    THEN Insight("reception", "negative", "Predominantly Negative Reception")
    ELSE Insight("reception", "neutral", "Mixed Reception")

\* lines 960-985
ReceptionInsight(pct) ==
    IF PctGt(pct["positive"], 75)
    THEN Insight("reception", "positive", "Overwhelmingly Positive Feedback")
    ELSE IF PctGt(pct["positive"], 60)
    THEN Insight("reception", "positive", "Generally Positive Reception")
    ELSE IF PctGt(pct["negative"], 50)
    THEN Insight("reception", "negative", "Predominantly Negative Reception")
    ELSE Insight("reception", "neutral", "Mixed Reception")

\* lines 996-1011
AlertInsight(alertsData) ==
    IF alertsData.total > 0 /\ PctGt(alertsData.resolutionRate, 90)
    THEN <<Insight("alerts", "positive", "Excellent Alert Management")>>
    ELSE IF alertsData.total > 0 /\ PctLt(alertsData.resolutionRate, 50)
    THEN <<Insight("alerts", "negative", "Alert Management Challenges")>>
    ELSE <<>>

\* the last of the days with the highest total
RECURSIVE MaxVolumeDayLatest(_, _)
MaxVolumeDayLatest(days, max) ==
    IF days = <<>> THEN max
    ELSE MaxVolumeDayLatest(Tail(days),
                            IF Head(days).total >= max.total THEN Head(days) ELSE max)

\* reduce((max, day) => day.total > max.total ? day : max, dailyVolume[0])
RECURSIVE MaxVolumeDay(_, _)
MaxVolumeDay(days, max) ==
    IF days = <<>> THEN max
    ELSE MaxVolumeDay(Tail(days), IF Head(days).total > max.total THEN Head(days) ELSE max)

\* lines 1022-1043
EngagementPattern(dailyVolume) ==
    LET maxVolumeDay == MaxVolumeDay(dailyVolume, dailyVolume[1])
    IN  IF maxVolumeDay.date = dailyVolume[1].date THEN "first"
        ELSE IF maxVolumeDay.date = dailyVolume[Len(dailyVolume)].date THEN "last"
        ELSE "middle"

GenerateKeyInsights(feedbackData, alertsData, issuesData, sentimentData, event) ==
    <<[rule |-> "scale", type |-> "info", title |-> "Event Scale",
       eventLength |-> CeilDiv(event.endDate - event.startDate, DayMs),
       total |-> feedbackData.total]>>
    \o <<ReceptionInsight(feedbackData.sentimentPercentages)>>
    \o OneIf(Len(feedbackData.topIssues) > 0,
             Insight("issues", "warning", "Primary Reported Issues"))
    \o AlertInsight(alertsData)
    \o OneIf(issuesData.severityCounts["critical"] > 0,
             Insight("critical", "warning", "Critical Issues Detected"))
    \o (IF Len(sentimentData.dailyVolume) > 1
        THEN <<[rule |-> "engagement", type |-> "info", title |-> "Engagement Pattern",
                pattern |-> EngagementPattern(sentimentData.dailyVolume)]>>
        ELSE <<>>)
    \o (IF Len(sentimentData.sentimentChanges) > 0
        THEN <<Insight("shift",
                       IF sentimentData.sentimentChanges[1].direction = "negative"
                       THEN "warning" ELSE "positive",
                       "Significant Sentiment Shift")>>
        ELSE <<>>)
    \o OneIf(Len(feedbackData.sourcePercentages) > 1,
             Insight("channels", "info", "Feedback Channels"))

----------------------------------------------------------------------------
(* Recommendation engine.  A recommendation is kept as its area, title and *)
(* priority.                                                               *)

Recommendation(area, title, priority) ==
    [area |-> area, title |-> title, priority |-> priority]

\* the priority with the threshold taken in
HighIfAtLeast(pct, n) == IF PctLt(pct, n) THEN "medium" ELSE "high"

HighIfOver(pct, n) == IF PctGt(pct, n) THEN "high" ELSE "medium"

\* the switch of lines 1085-1165
TopIssueRecommendation(topIssue) ==
    LET t == topIssue.issue
        p == topIssue.percentage
    IN  IF t = "queue"
        THEN Recommendation("Logistics", "Improve Queue Management", HighIfOver(p, 30))
        ELSE IF t = "audio"
        THEN Recommendation("Technical", "Enhance Audio Setup", HighIfOver(p, 30))
        ELSE IF t = "video"
        THEN Recommendation("Technical", "Improve Visual Displays", HighIfOver(p, 30))
        ELSE IF t = "crowding"
        THEN Recommendation("Venue", "Address Space Management", HighIfOver(p, 30))
        ELSE IF t = "amenities"
        THEN Recommendation("Services", "Enhance Attendee Amenities", HighIfOver(p, 30))
        ELSE IF t = "content"
        THEN Recommendation("Programming", "Refine Event Content", HighIfOver(p, 30))
        ELSE IF t = "temperature"
        THEN Recommendation("Venue", "Improve Climate Control", HighIfOver(p, 25))
        ELSE IF t = "safety"
        THEN Recommendation("Security", "Enhance Safety Measures", "high")
        ELSE [area |-> "General", title |-> "Address Issues", issue |-> t,
              priority |-> HighIfOver(p, 25)]

GenerateImprovementRecommendations(feedbackData, alertsData, issuesData, sentimentData) ==
    (IF Len(feedbackData.topIssues) > 0
     THEN <<TopIssueRecommendation(feedbackData.topIssues[1])>> ELSE <<>>)
    \o OneIf(PctLt(alertsData.resolutionRate, 70),
             Recommendation("Operations", "Improve Alert Response System", "high"))
    \o OneIf(alertsData.averageResponseTimeMinutes > 30 /\ alertsData.total > 5,
             Recommendation("Operations", "Decrease Alert Response Time", "medium"))
    \o OneIf(PctGt(feedbackData.sentimentPercentages["negative"], 30),
             Recommendation("Customer Experience", "Address Negative Sentiment Patterns",
                            "high"))
    \* feedbackPerDay = total / eventDayCount < 10, a division by 0 being
    \* Infinity (or NaN for 0 / 0) and by a negative count negative
    \o OneIf(feedbackData.total > 0
             /\ \/ sentimentData.eventDayCount < 0
                \/ /\ sentimentData.eventDayCount > 0
                   /\ feedbackData.total < 10 * sentimentData.eventDayCount,
             Recommendation("Feedback Collection", "Increase Feedback Collection",
                            "medium"))
    \o OneIf(Len(feedbackData.sourcePercentages) <= 2,
             Recommendation("Monitoring", "Diversify Feedback Channels", "medium"))
    \o OneIf(PctGt(feedbackData.sentimentPercentages["positive"], 60),
             Recommendation("Strengths", "Build on Positive Elements", "medium"))

----------------------------------------------------------------------------
(* The stored records *)

Hour == 60 * 60 * 1000
Minute == 60 * 1000

\* Event documents; "e3" is an id no document has
EventIds == {"e1", "e2", "e3"}

Events ==
    [ e1 |-> [id |-> "e1", startDate |-> 8 * DayMs, endDate |-> 10 * DayMs],
      e2 |-> [id |-> "e2", startDate |-> 9 * DayMs, endDate |-> 10 * DayMs] ]

EndDate == 10 * DayMs

\* Event.findById
FindById(eventId) ==
    IF eventId \in DOMAIN Events THEN <<Events[eventId]>> ELSE <<>>

InitialAlerts ==
    << [event |-> "e1", type |-> "sentiment", severity |-> "high", category |-> "queue",
        status |-> "resolved", createdAt |-> 8 * DayMs + Hour,
        resolvedAt |-> <<8 * DayMs + Hour + 20 * Minute>>],
       [event |-> "e1", type |-> "issue", severity |-> "critical", category |-> "audio",
        status |-> "new", createdAt |-> 9 * DayMs + Hour, resolvedAt |-> <<>>] >>

InitialIssues ==
    << [event |-> "e1", type |-> "queue", severity |-> "medium", status |-> "resolved",
        location |-> "gate", createdAt |-> 8 * DayMs + Hour,
        resolvedAt |-> <<8 * DayMs + 2 * Hour>>],
       [event |-> "e1", type |-> "audio", severity |-> "critical", status |-> "detected",
        location |-> None, createdAt |-> 9 * DayMs + Hour, resolvedAt |-> <<>>] >>

InitialSentiment ==
    << [event |-> "e1", timeframe |-> "hour", timestamp |-> 8 * DayMs + Hour,
        positive |-> 4, neutral |-> 1, negative |-> 1, total |-> 6],
       [event |-> "e1", timeframe |-> "hour", timestamp |-> 8 * DayMs + 2 * Hour,
        positive |-> 1, neutral |-> 1, negative |-> 4, total |-> 6],
       [event |-> "e1", timeframe |-> "day", timestamp |-> 8 * DayMs,
        positive |-> 5, neutral |-> 2, negative |-> 5, total |-> 12] >>

InitialDb ==
    [ feedback |-> <<>>, alerts |-> InitialAlerts, issues |-> InitialIssues,
      sentiment |-> InitialSentiment ]

\* Model.find({ event: eventId })
FindByEvent(records, eventId) ==
    LET Mine(r) == r.event = eventId IN SelectSeq(records, Mine)

\* SentimentRecord.find({ event, timeframe }).sort({ timestamp: 1 })
FindSentiment(records, eventId, timeframe) ==
    LET Mine(r) == r.event = eventId /\ r.timeframe = timeframe
        mine == SelectSeq(records, Mine)
    IN  Values(SortPairs([i \in 1..Len(mine) |-> [k |-> mine[i].timestamp, v |-> mine[i]]]))

----------------------------------------------------------------------------
(* Feedback ingestion *)

\* what sentimentAnalyzer.processFeedback and the Feedback schema let
\* Feedback.create store: a class of the enum and a score in [-1, 1]
SubmitKinds ==
    { [sentiment |-> "positive", score |-> 30, issueType |-> None, source |-> "direct"],
      [sentiment |-> "positive", score |-> 70, issueType |-> None, source |-> "survey"],
      [sentiment |-> "negative", score |-> -30, issueType |-> "queue", source |-> "direct"],
      [sentiment |-> "negative", score |-> -70, issueType |-> "audio", source |-> "survey"],
      [sentiment |-> "neutral", score |-> 0, issueType |-> None, source |-> "direct"] }

\* calculateMockScore, on texts of one keyword
CalculateMockScore(text) ==
    IF text = "hate" THEN -5
    ELSE IF text = "amazing" THEN 2
    ELSE IF text = "great" THEN 3
    ELSE IF text = "love" THEN 5
    ELSE 0

\* the String the schema casts a number to
NumberString(n) ==
    IF n = -5 THEN "-5"
    ELSE IF n = 2 THEN "2"
    ELSE IF n = 3 THEN "3"
    ELSE IF n = 5 THEN "5"
    ELSE "0"

\* the document Feedback.create stores for socket 'submit-feedback'
SubmittedRecord(id, eventId, kind) ==
    [ id |-> id, event |-> eventId, source |-> kind.source, text |-> "text",
      sentiment |-> kind.sentiment, score |-> kind.score, issueType |-> kind.issueType ]

\* the document searchTweets and processTweet upsert: `sentiment` holds the
\* mock score, and no sentimentScore is set (item.sentimentScore || 0 is 0)
TweetRecord(id, eventId, text) ==
    [ id |-> id, event |-> eventId, source |-> "twitter", text |-> text,
      sentiment |-> NumberString(CalculateMockScore(text)), score |-> 0,
      issueType |-> None ]

----------------------------------------------------------------------------
(* generatePostEventReport.  A call is a promise chain: between two awaits *)
(* it runs to completion, so each action below is the code from one await  *)
(* to the next.                                                            *)

Calls == {"c1", "c2"}

\* the sockets connected to the server
Sockets == {"s1", "s2"}

\* the calls of startEventStream in flight together
StartCalls == {"k1", "k2"}

\* the order of the calls inside Promise.all([...]), lines 285-288
FanOut == <<"feedback", "alerts", "issues", "sentiment">>

Aggregators == {FanOut[i] : i \in 1..Len(FanOut)}

NoValue == [kind |-> "none"]
Value(v) == [kind |-> "value", v |-> v]
Failure(error, from) == [kind |-> "error", error |-> error, from |-> from]

\* the read an aggregator awaits first
FirstRead(a) == IF a = "sentiment" THEN "event" ELSE "reading"

\* an aggregator with a read in flight
Reading(status) == status \in {"reading", "event", "hourly", "daily"}

\* a join that resolves with the first aggregator (Promise.race)
JoinReadyAny(status) == \E a \in Aggregators : status[a] = "done"

\* Promise.all resolves: every aggregator has resolved
JoinReady(status) == \A a \in Aggregators : status[a] = "done"

\* a report whose insights measure the event up to the time of the report
AssembleReportAging(event, eventEnded, generatedAt, o) ==
    [ event |-> event,
      reportGeneratedAt |-> generatedAt,
      eventStatus |-> IF eventEnded THEN "completed" ELSE "active",
      summary |-> GenerateExecutiveSummary(o["feedback"].v, o["alerts"].v, o["issues"].v,
                                           o["sentiment"].v),
      feedback |-> o["feedback"].v,
      alerts |-> o["alerts"].v,
      issues |-> o["issues"].v,
      sentiment |-> o["sentiment"].v,
      insights |-> GenerateKeyInsights(o["feedback"].v, o["alerts"].v, o["issues"].v,
                                       o["sentiment"].v,
                                       [event EXCEPT !.endDate = generatedAt]),
      improvement |-> GenerateImprovementRecommendations(o["feedback"].v, o["alerts"].v,
                                                         o["issues"].v, o["sentiment"].v) ]

\* lines 301-329: the report value
AssembleReport(event, eventEnded, generatedAt, o) ==
    LET feedbackData == o["feedback"].v
        alertsData == o["alerts"].v
        issuesData == o["issues"].v
        sentimentData == o["sentiment"].v
    IN  [ event |-> event,
          reportGeneratedAt |-> generatedAt,
          eventStatus |-> IF eventEnded THEN "completed" ELSE "active",
          summary |-> GenerateExecutiveSummary(feedbackData, alertsData, issuesData,
                                               sentimentData),
          feedback |-> feedbackData,
          alerts |-> alertsData,
          issues |-> issuesData,
          sentiment |-> sentimentData,
          insights |-> GenerateKeyInsights(feedbackData, alertsData, issuesData,
                                           sentimentData, event),
          improvement |-> GenerateImprovementRecommendations(feedbackData, alertsData,
                                                             issuesData, sentimentData) ]

\* the stages run after the join, in the order the code calls them
Stages == <<"generateKeyInsights", "generateExecutiveSummary",
            "generateImprovementRecommendations">>

StageEntries(done) == [i \in 1..Len(Stages) |-> [ev |-> Stages[i], done |-> done]]

InitAt(times) ==
    /\ clock \in times
    /\ db = InitialDb
    /\ writes = 0
    /\ pc = [c \in Calls |-> "idle"]
    /\ arg = [c \in Calls |-> [eventId |-> "e1", force |-> FALSE]]
    /\ callNow = [c \in Calls |-> 0]
    /\ agg = [c \in Calls |-> [a \in Aggregators |-> "idle"]]
    /\ out = [c \in Calls |-> [a \in Aggregators |-> NoValue]]
    /\ trace = [c \in Calls |-> <<>>]
    /\ span = [c \in Calls |-> [lo |-> 0, hi |-> 0]]
    /\ result = [c \in Calls |-> NoValue]
    /\ avail = NoValue
    /\ seen = <<>>
    /\ acc = FeedbackInit
    /\ fbOut = NoValue
    /\ resp = [c \in Calls |-> NoValue]
    /\ unitIn = NoValue
    /\ unitOut = NoValue
    /\ connectedClients = <<>>
    /\ sockets = [s \in Sockets |-> [connected |-> TRUE, joining |-> {}]]
    /\ activeStreams = <<>>
    /\ timers = <<>>
    /\ starts = [k \in StartCalls |-> [pc |-> "idle", eventId |-> None]]

\* time passes
Tick(t) ==
    /\ t > clock
    /\ clock' = t
    /\ UNCHANGED <<db, writes, callVars, avail, loopVars, unitVars, liveVars>>

\* socket 'submit-feedback': Feedback.create(processedFeedback)
SubmitFeedback(eventId, kind) ==
    /\ Len(db.feedback) < MaxFeedback
    /\ db' = [db EXCEPT !.feedback =
                 Append(@, SubmittedRecord(Len(@) + 1, eventId, kind))]
    /\ writes' = writes + 1
    /\ UNCHANGED <<clock, callVars, avail, loopVars, unitVars, liveVars>>

\* searchTweets / processTweet: Feedback.findOneAndUpdate(..., { upsert: true })
\* of a tweet not stored before
IngestTweet(eventId, text) ==
    /\ Len(db.feedback) < MaxFeedback
    /\ FindById(eventId) # <<>>
    /\ db' = [db EXCEPT !.feedback = Append(@, TweetRecord(Len(@) + 1, eventId, text))]
    /\ writes' = writes + 1
    /\ UNCHANGED <<clock, callVars, avail, loopVars, unitVars, liveVars>>

\* the controller calls generatePostEventReport(eventId, { force }); the
\* call runs up to `await Event.findById(eventId)`
Call(c, eventId, force) ==
    /\ pc[c] = "idle"
    /\ pc' = [pc EXCEPT ![c] = "findEvent"]
    /\ arg' = [arg EXCEPT ![c] = [eventId |-> eventId, force |-> force]]
    /\ span' = [span EXCEPT ![c] = [lo |-> writes, hi |-> writes]]
    /\ UNCHANGED <<clock, db, writes, callNow, agg, out, trace, result, resp, avail,
                   loopVars, unitVars, liveVars>>

\* the call throws `error`: the catch of lines 330-333 rethrows it
Throw(c, error, events) ==
    /\ pc' = [pc EXCEPT ![c] = "failed"]
    /\ result' = [result EXCEPT ![c] = error]
    /\ trace' = [trace EXCEPT ![c] = @ \o events]
    /\ span' = [span EXCEPT ![c].hi = writes]

\* lines 267-289 for the event found: the gate, then the fan-out up to
\* `await Promise.all([...])`
GateAndFanOut(c, event) ==
    /\ callNow' = [callNow EXCEPT ![c] = clock]
    /\ IF GateAllows(arg[c].force, clock, event.endDate)
       THEN /\ pc' = [pc EXCEPT ![c] = "join"]
            /\ agg' = [agg EXCEPT ![c] = [a \in Aggregators |-> FirstRead(a)]]
            /\ trace' = [trace EXCEPT ![c] =
                   @ \o <<[ev |-> "findEvent", found |-> TRUE], [ev |-> "gate"]>>
                     \o [i \in 1..Len(FanOut) |-> [ev |-> "start", a |-> FanOut[i]]]
                     \o <<[ev |-> "await",
                           started |-> {FanOut[i] : i \in 1..Len(FanOut)}]>>]
            /\ UNCHANGED <<result, span>>
       ELSE /\ Throw(c, Failure("NotYetAvailable", "gate"),
                     <<[ev |-> "findEvent", found |-> TRUE], [ev |-> "gate"]>>)
            /\ UNCHANGED agg

\* the lookup without its `if (!event)` check: new Date(event.endDate) on
\* line 268 throws a TypeError on null
FindEventReturnUnchecked(c) ==
    /\ pc[c] = "findEvent"
    /\ LET found == FindById(arg[c].eventId)
       IN  IF found = <<>>
           THEN /\ Throw(c, Failure("TypeError", "event"),
                         <<[ev |-> "findEvent", found |-> FALSE]>>)
                /\ UNCHANGED <<callNow, agg>>
           ELSE GateAndFanOut(c, found[1])
    /\ UNCHANGED <<clock, db, writes, arg, out, resp, avail, loopVars, unitVars, liveVars>>

\* Event.findById resolves: lines 263-289, up to `await Promise.all([...])`
FindEventReturn(c) ==
    /\ pc[c] = "findEvent"
    /\ LET found == FindById(arg[c].eventId)
       IN  IF found = <<>>
           THEN /\ Throw(c, Failure("EventNotFound", "event"),
                         <<[ev |-> "findEvent", found |-> FALSE]>>)
                /\ UNCHANGED <<callNow, agg>>
           ELSE GateAndFanOut(c, found[1])
    /\ UNCHANGED <<clock, db, writes, arg, out, resp, avail, loopVars, unitVars, liveVars>>

\* Event.findById rejects
FindEventFail(c) ==
    /\ pc[c] = "findEvent"
    /\ Throw(c, Failure("ReadFailure", "event"), <<>>)
    /\ UNCHANGED <<clock, db, writes, arg, callNow, agg, out, resp, avail, loopVars, unitVars,
                   liveVars>>

\* the event id kept in one place for all calls, the last caller's
ReadKeyShared(c) == arg["c2"].eventId

\* the eventId argument call c hands its aggregators, lines 285-288
ReadKey(c) == arg[c].eventId

\* aggregator a of call c resolves with value v: when this lets Promise.all
\* resolve, the call runs lines 291-329 and returns the report
Resolve(c, a, v) ==
    LET status == [agg[c] EXCEPT ![a] = "done"]
        o == [out[c] EXCEPT ![a] = Value(v)]
        event == Events[arg[c].eventId]
    IN  /\ agg' = [agg EXCEPT ![c] = status]
        /\ out' = [out EXCEPT ![c] = o]
        /\ IF pc[c] = "join" /\ JoinReady(status)
           THEN IF \A x \in Aggregators : o[x].kind = "value"
                THEN /\ pc' = [pc EXCEPT ![c] = "done"]
                     /\ trace' = [trace EXCEPT ![c] =
                            @ \o StageEntries({x \in Aggregators : status[x] = "done"})]
                     /\ result' = [result EXCEPT ![c] =
                            [ kind |-> "report",
                              report |-> AssembleReport(event,
                                             EventEnded(callNow[c], event.endDate),
                                             clock, o) ]]
                     /\ span' = [span EXCEPT ![c].hi = writes]
                \* a stage reads a property of undefined
                ELSE Throw(c, Failure("TypeError", "stage"),
                           <<[ev |-> Stages[1],
                              done |-> {x \in Aggregators : status[x] = "done"}]>>)
           ELSE UNCHANGED <<pc, trace, result, span>>

\* the read of analyzeFeedback, analyzeAlerts or analyzeIssues resolves
AggregatorReturn(c, a) ==
    /\ agg[c][a] = "reading"
    /\ Resolve(c, a,
               IF a = "feedback"
               THEN AnalyzeFeedbackOf(FindByEvent(db.feedback, ReadKey(c)))
               ELSE IF a = "alerts"
               THEN AnalyzeAlertsOf(FindByEvent(db.alerts, ReadKey(c)))
               ELSE AnalyzeIssuesOf(FindByEvent(db.issues, ReadKey(c))))
    /\ UNCHANGED <<clock, db, writes, arg, callNow, resp, avail, loopVars, unitVars, liveVars>>

\* a read of analyzeSentimentTrends resolves: Event.findById, then the
\* hourly records, then the daily records
SentimentReadReturn(c) ==
    /\ agg[c]["sentiment"] \in {"event", "hourly", "daily"}
    /\ IF agg[c]["sentiment"] = "event"
       THEN /\ agg' = [agg EXCEPT ![c]["sentiment"] = "hourly"]
            /\ UNCHANGED <<out, pc, trace, result, span>>
       ELSE IF agg[c]["sentiment"] = "hourly"
       THEN /\ agg' = [agg EXCEPT ![c]["sentiment"] = "daily"]
            /\ out' = [out EXCEPT ![c]["sentiment"] =
                          [ kind |-> "partial",
                            hourly |-> FindSentiment(db.sentiment, ReadKey(c), "hour") ]]
            /\ UNCHANGED <<pc, trace, result, span>>
       ELSE Resolve(c, "sentiment",
                    AnalyzeSentimentTrendsOf(
                        Events[arg[c].eventId],
                        out[c]["sentiment"].hourly,
                        FindSentiment(db.sentiment, ReadKey(c), "day")))
    /\ UNCHANGED <<clock, db, writes, arg, callNow, resp, avail, loopVars, unitVars, liveVars>>

\* a rejected read whose error the aggregator logs and does not rethrow
AggregatorFailSwallowed(c, a) ==
    /\ Reading(agg[c][a])
    /\ agg' = [agg EXCEPT ![c][a] = "failed"]
    /\ UNCHANGED <<pc, result, trace, span>>
    /\ UNCHANGED <<clock, db, writes, arg, callNow, out, resp, avail, loopVars, unitVars, liveVars>>

\* a read of aggregator a rejects: the aggregator rethrows (lines 482-485),
\* Promise.all rejects with the first such error, the call rethrows it
AggregatorFail(c, a) ==
    /\ Reading(agg[c][a])
    /\ agg' = [agg EXCEPT ![c][a] = "failed"]
    /\ IF pc[c] = "join"
       THEN Throw(c, Failure("ReadFailure", a), <<>>)
       ELSE UNCHANGED <<pc, result, trace, span>>
    /\ UNCHANGED <<clock, db, writes, arg, callNow, out, resp, avail, loopVars, unitVars, liveVars>>


\* the controller's checkReportAvailability, lines 40-65
CheckReportAvailability(eventId) ==
    /\ LET found == FindById(eventId)
       IN  avail' =
             IF found = <<>>
             THEN [kind |-> "response", status |-> 404, eventId |-> eventId]
             ELSE LET eventEnded == EventEnded(clock, found[1].endDate)
                      nearEnd == NearEnd(clock, found[1].endDate)
                  IN  [ kind |-> "response", status |-> 200, eventId |-> eventId,
                        at |-> clock,
                        available |-> eventEnded \/ nearEnd,
                        eventEnded |-> eventEnded,
                        nearEnd |-> nearEnd,
                        daysRemaining |->
                            IF eventEnded THEN 0
                            ELSE CeilDiv(found[1].endDate - clock, DayMs) ]
    /\ UNCHANGED <<clock, db, writes, callVars, loopVars, unitVars, liveVars>>

\* error.message of what generatePostEventReport throws, word by word; a
\* rejected read carries the driver's message
ErrorMessage(error, eventId) ==
    IF error = "EventNotFound" THEN <<"Event", "not", "found:", eventId>>
    ELSE IF error = "NotYetAvailable"
    THEN <<"Cannot", "generate", "post-event", "report", "for", "an", "active",
           "event", "that", "is", "not", "near", "conclusion">>
    ELSE IF error = "TypeError"
    THEN <<"Cannot", "read", "properties", "of", "undefined">>
    ELSE <<"MongoNetworkError:", "connection", "closed">>

\* message.includes(words)
Includes(message, words) ==
    \E i \in 1..Len(message) :
        /\ i + Len(words) - 1 <= Len(message)
        /\ SubSeq(message, i, i + Len(words) - 1) = words

\* the catch block of the four report endpoints
ErrorResponse(message) ==
    [ kind |-> "response",
      status |-> IF Includes(message, <<"Cannot", "generate">>) THEN 400 ELSE 500,
      success |-> FALSE,
      message |-> message,
      data |-> <<>> ]

\* what an endpoint answers when the report was generated
SuccessResponse(endpoint, format, report) ==
    LET Ok(data) == [ kind |-> "response", status |-> 200, success |-> TRUE,
                      message |-> <<>>, data |-> <<data>> ]
    IN  IF endpoint = "report" THEN Ok(report)
        ELSE IF endpoint = "recommendations"
        THEN Ok([event |-> report.event, recommendations |-> report.improvement])
        ELSE IF endpoint = "insights"
        THEN Ok([event |-> report.event, insights |-> report.insights])
        ELSE IF format = "json" THEN Ok(report)
        ELSE [ kind |-> "response", status |-> 400, success |-> FALSE,
               message |-> <<"Export", "format", format, "is", "not", "supported",
                             "yet.">>,
               data |-> <<>> ]

\* the endpoint's handler after its `await generatePostEventReport(...)`
\* settled: the response it sends
Respond(c, endpoint, format) ==
    /\ pc[c] \in {"done", "failed"}
    /\ resp[c].kind = "none"
    /\ resp' = [resp EXCEPT ![c] =
                   IF result[c].kind = "report"
                   THEN SuccessResponse(endpoint, format, result[c].report)
                   ELSE ErrorResponse(ErrorMessage(result[c].error, arg[c].eventId))]
    /\ UNCHANGED <<clock, db, writes, pc, arg, callNow, agg, out, trace, span, result,
                   avail, loopVars, unitVars, liveVars>>

----------------------------------------------------------------------------
(* analyzeFeedback's loop, one record per step.  The array Feedback.find   *)
(* returned is `seen` at the step that ends the loop.                      *)

\* feedback.forEach visits the next record of the array
LoopVisit(item) ==
    /\ fbOut.kind = "none"
    /\ Len(seen) < MaxStream
    /\ seen' = Append(seen, item)
    /\ acc' = FeedbackVisit(acc, item)
    /\ UNCHANGED <<clock, db, writes, callVars, avail, fbOut, unitVars, liveVars>>

\* the array is exhausted: lines 429-481
LoopFinish ==
    /\ fbOut.kind = "none"
    /\ fbOut' = Value(FeedbackResult(acc, Len(seen)))
    /\ UNCHANGED <<clock, db, writes, callVars, avail, seen, acc, unitVars, liveVars>>

----------------------------------------------------------------------------
(* Specifications *)

\* three days before the end, an hour before it, a day after it
PipelineTimes == {EndDate - 3 * DayMs, EndDate - Hour, EndDate + DayMs}

\* the gate's boundaries, to the millisecond
GateTimes ==
    { EndDate - 3 * DayMs, EndDate - DayMs - 1, EndDate - DayMs, EndDate - DayMs + 1,
      EndDate - 1, EndDate, EndDate + 1, EndDate + DayMs - 1, EndDate + DayMs,
      EndDate + DayMs + 1, EndDate + 10 * DayMs }

Init == InitAt(PipelineTimes)

\* one call, every read of which may fail, while feedback arrives
Next ==
    \/ \E t \in PipelineTimes : Tick(t)
    \/ \E k \in {x \in SubmitKinds : x.source = "survey"} : SubmitFeedback("e1", k)
    \/ IngestTweet("e1", "love")
    \/ \E e \in EventIds, force \in BOOLEAN : Call("c1", e, force)
    \/ FindEventReturn("c1")
    \/ FindEventFail("c1")
    \/ \E a \in Aggregators : AggregatorReturn("c1", a)
    \/ SentimentReadReturn("c1")
    \/ \E a \in Aggregators : AggregatorFail("c1", a)

Spec == Init /\ [][Next]_vars

\* the gate alone, at its boundaries
InitGate == InitAt(GateTimes)

NextGate ==
    \/ \E c \in Calls, e \in EventIds, force \in BOOLEAN : Call(c, e, force)
    \/ \E c \in Calls : FindEventReturn(c)
    \/ \E e \in EventIds : CheckReportAvailability(e)

SpecGate == InitGate /\ [][NextGate]_vars

\* a request to one of the four report endpoints, every read of which may
\* fail, up to its response
NextHttp ==
    \/ \E e \in EventIds, force \in BOOLEAN : Call("c1", e, force)
    \/ FindEventReturn("c1")
    \/ FindEventFail("c1")
    \/ \E a \in Aggregators : AggregatorReturn("c1", a)
    \/ SentimentReadReturn("c1")
    \/ \E a \in Aggregators : AggregatorFail("c1", a)
    \/ \E endpoint \in {"report", "recommendations", "insights"} :
          Respond("c1", endpoint, "json")
    \/ \E format \in {"json", "pdf"} : Respond("c1", "export", format)

SpecHttp == Init /\ [][NextHttp]_vars

\* analyzeFeedback over every array of at most MaxStream stored records
InitLoop == InitAt({EndDate})

StoredRecords(id) ==
    {SubmittedRecord(id, "e1", k) : k \in SubmitKinds} \cup {TweetRecord(id, "e1", "love")}

NextLoop ==
    \/ \E item \in StoredRecords(Len(seen) + 1) : LoopVisit(item)
    \/ LoopFinish

SpecFeedback == InitLoop /\ [][NextLoop]_vars


\* two calls in flight together, for one event or for two, while feedback
\* arrives and the event ends
ConcTimes == {EndDate - Hour, EndDate + DayMs}

InitConc == InitAt({EndDate - Hour})

NextConc ==
    \/ \E t \in ConcTimes : Tick(t)
    \/ SubmitFeedback("e1", CHOOSE k \in SubmitKinds : k.score = 70)
    \/ \E c \in Calls, e \in {"e1", "e2"} : Call(c, e, FALSE)
    \/ \E c \in Calls : FindEventReturn(c)
    \/ \E c \in Calls, a \in Aggregators : AggregatorReturn(c, a)
    \/ \E c \in Calls : SentimentReadReturn(c)

SpecConc == InitConc /\ [][NextConc]_vars

----------------------------------------------------------------------------
(* The aggregators and the scorer run on given records, without the reads. *)

\* n feedback records of one kind, their ids counting on from `first`
Copies(n, first, kind) ==
    [i \in 1..n |-> SubmittedRecord(first + i - 1, "e1", kind)]

PositiveKind ==
    [sentiment |-> "positive", score |-> 70, issueType |-> None, source |-> "survey"]
NeutralKind ==
    [sentiment |-> "neutral", score |-> 0, issueType |-> None, source |-> "direct"]
NegativeKind ==
    [sentiment |-> "negative", score |-> -30, issueType |-> "queue", source |-> "direct"]

\* stored feedback of event e1: p positive, u neutral and n negative
\* records, and a tweet when `tweet`
FeedbackOfCounts(p, u, n, tweet) ==
    Copies(p, 1, PositiveKind) \o Copies(u, p + 1, NeutralKind)
        \o Copies(n, p + u + 1, NegativeKind)
        \o (IF tweet THEN <<TweetRecord(p + u + n + 1, "e1", "love")>> ELSE <<>>)

\* stored issues of event e1: r resolved, f false positives, o detected
IssuesOfCounts(r, f, o) ==
    [i \in 1..r |-> [event |-> "e1", type |-> "queue", severity |-> "medium",
                     status |-> "resolved", location |-> "gate",
                     createdAt |-> 8 * DayMs + i * Hour,
                     resolvedAt |-> <<8 * DayMs + i * Hour + 30 * Minute>>]]
    \o [i \in 1..f |-> [event |-> "e1", type |-> "audio", severity |-> "low",
                        status |-> "falsePositive", location |-> None,
                        createdAt |-> 9 * DayMs + i * Hour, resolvedAt |-> <<>>]]
    \o [i \in 1..o |-> [event |-> "e1", type |-> "audio", severity |-> "critical",
                        status |-> "detected", location |-> None,
                        createdAt |-> 9 * DayMs + i * Hour, resolvedAt |-> <<>>]]

\* stored alerts of event e1: r resolved, o new
AlertsOfCounts(r, o) ==
    [i \in 1..r |-> [event |-> "e1", type |-> "sentiment", severity |-> "high",
                     category |-> "queue", status |-> "resolved",
                     createdAt |-> 8 * DayMs + i * Hour,
                     resolvedAt |-> <<8 * DayMs + i * Hour + 20 * Minute>>]]
    \o [i \in 1..o |-> [event |-> "e1", type |-> "issue", severity |-> "critical",
                        category |-> "audio", status |-> "new",
                        createdAt |-> 9 * DayMs + i * Hour, resolvedAt |-> <<>>]]

\* lines 291-318 on the records given: the four aggregations and the
\* executive summary made of them
SummarizeRecords(feedback, alerts, issues) ==
    /\ unitOut.kind = "none"
    /\ unitIn' = [kind |-> "records", feedback |-> feedback, alerts |-> alerts,
                  issues |-> issues]
    /\ LET feedbackData == AnalyzeFeedbackOf(feedback)
           alertsData == AnalyzeAlertsOf(alerts)
           issuesData == AnalyzeIssuesOf(issues)
           sentimentData == AnalyzeSentimentTrendsOf(Events["e1"], <<>>, <<>>)
       IN  unitOut' = Value([ feedback |-> feedbackData,
                              alerts |-> alertsData,
                              issues |-> issuesData,
                              summary |-> GenerateExecutiveSummary(
                                              feedbackData, alertsData, issuesData,
                                              sentimentData) ])
    /\ UNCHANGED <<clock, db, writes, callVars, avail, loopVars, liveVars>>

InitSummary == InitAt({EndDate})

\* every feedback mix with one set of alerts and issues, and every mix of
\* alerts and issues with the smaller feedback mixes
NextSummary ==
    \/ \E p \in 0..MaxPositive, u \in 0..MaxOther, n \in 0..MaxOther, tweet \in BOOLEAN :
          SummarizeRecords(FeedbackOfCounts(p, u, n, tweet), AlertsOfCounts(1, 1),
                           IssuesOfCounts(1, 0, 1))
    \/ \E p \in 0..(MaxOther + 1), n \in 0..MaxOther,
          ir \in 0..MaxOther, if \in 0..MaxOther, io \in 0..MaxOther,
          ar \in 0..MaxOther, ao \in 0..1 :
          SummarizeRecords(FeedbackOfCounts(p, 0, n, FALSE), AlertsOfCounts(ar, ao),
                           IssuesOfCounts(ir, if, io))

SpecSummary == InitSummary /\ [][NextSummary]_vars

\* alerts as Alert documents hold them: a type, severity, status and
\* category of the schema's enums; resolvedAt is set when an alert is saved
\* as resolved and stays when the alert is reopened
AlertKinds ==
    << [type |-> "sentiment", severity |-> "high", category |-> "queue",
       status |-> "resolved", day |-> 8, minutes |-> <<10>>],
      [type |-> "issue", severity |-> "critical", category |-> "audio",
       status |-> "resolved", day |-> 8, minutes |-> <<20>>],
      [type |-> "trend", severity |-> "low", category |-> "general",
       status |-> "resolved", day |-> 9, minutes |-> <<30>>],
      [type |-> "system", severity |-> "medium", category |-> "queue",
       status |-> "resolved", day |-> 9, minutes |-> <<40>>],
      [type |-> "sos", severity |-> "critical", category |-> "emergency",
       status |-> "resolved", day |-> 7, minutes |-> <<50>>],
      [type |-> "issue", severity |-> "critical", category |-> "audio",
       status |-> "new", day |-> 9, minutes |-> <<>>],
      [type |-> "sentiment", severity |-> "high", category |-> "queue",
       status |-> "inProgress", day |-> 8, minutes |-> <<25>>] >>

\* the Alert document of a kind
AlertRecord(kind) ==
    [ event |-> "e1", type |-> kind.type, severity |-> kind.severity,
      category |-> kind.category, status |-> kind.status,
      createdAt |-> kind.day * DayMs + Hour,
      resolvedAt |-> IF kind.minutes = <<>> THEN <<>>
                     ELSE <<kind.day * DayMs + Hour + kind.minutes[1] * Minute>> ]

\* analyzeAlerts on the alerts Alert.find returned
AnalyzeAlerts(alerts) ==
    /\ unitOut.kind = "none"
    /\ unitIn' = [kind |-> "alerts", alerts |-> alerts]
    /\ unitOut' = Value(AnalyzeAlertsOf(alerts))
    /\ UNCHANGED <<clock, db, writes, callVars, avail, loopVars, liveVars>>

InitAlerts == InitAt({EndDate})

\* every choice of at most MaxAlerts alerts of these kinds, stored in the
\* order of the kinds (whose creation days are not in order)
NextAlerts ==
    \E n \in 0..MaxAlerts : \E kinds \in [1..n -> 1..Len(AlertKinds)] :
        /\ \A i \in 1..(n - 1) : kinds[i] <= kinds[i + 1]
        /\ AnalyzeAlerts([i \in 1..n |-> AlertRecord(AlertKinds[kinds[i]])])

SpecAlerts == InitAlerts /\ [][NextAlerts]_vars

\* issues as the aggregator reads them: a status of the five it counts, and
\* a resolvedAt that a resolved issue may lack and another may carry
IssueKinds ==
    << [type |-> "queue", severity |-> "medium", status |-> "resolved",
        location |-> "gate", minutes |-> <<30>>],
       [type |-> "audio", severity |-> "high", status |-> "resolved",
        location |-> None, minutes |-> <<95>>],
       [type |-> "audio", severity |-> "low", status |-> "falsePositive",
        location |-> "stage", minutes |-> <<10>>],
       [type |-> "queue", severity |-> "critical", status |-> "detected",
        location |-> "gate", minutes |-> <<>>],
       [type |-> "video", severity |-> "medium", status |-> "confirmed",
        location |-> None, minutes |-> <<>>],
       [type |-> "safety", severity |-> "high", status |-> "inProgress",
        location |-> "stage", minutes |-> <<>>],
       [type |-> "queue", severity |-> "low", status |-> "resolved",
        location |-> None, minutes |-> <<>>] >>

\* analyzeIssues on the issues Issue.find returned
AnalyzeIssues(issues) ==
    /\ unitOut.kind = "none"
    /\ unitIn' = [kind |-> "issues", issues |-> issues]
    /\ unitOut' = Value(AnalyzeIssuesOf(issues))
    /\ UNCHANGED <<clock, db, writes, callVars, avail, loopVars, liveVars>>

\* every choice of at most MaxIssues issues of these kinds
NextIssues ==
    \E n \in 0..MaxIssues : \E kinds \in [1..n -> 1..Len(IssueKinds)] :
        /\ \A i \in 1..(n - 1) : kinds[i] <= kinds[i + 1]
        /\ AnalyzeIssues([i \in 1..n |->
               LET kind == IssueKinds[kinds[i]]
               IN  [ event |-> "e1", type |-> kind.type, severity |-> kind.severity,
                     status |-> kind.status, location |-> kind.location,
                     createdAt |-> 8 * DayMs + i * Hour,
                     resolvedAt |-> IF kind.minutes = <<>> THEN <<>>
                                    ELSE <<8 * DayMs + i * Hour
                                             + kind.minutes[1] * Minute>> ]])

SpecIssues == InitAlerts /\ [][NextIssues]_vars

\* hourly sentiment records by their counts: two without enough feedback
\* (all negative, all positive), then negative shares of 80, 0, 35, 20 and
\* 10 percent
PeriodKinds ==
    << [positive |-> 0, neutral |-> 0, negative |-> 3, total |-> 3],
       [positive |-> 4, neutral |-> 0, negative |-> 0, total |-> 4],
       [positive |-> 1, neutral |-> 1, negative |-> 8, total |-> 10],
       [positive |-> 10, neutral |-> 0, negative |-> 0, total |-> 10],
       [positive |-> 10, neutral |-> 3, negative |-> 7, total |-> 20],
       [positive |-> 3, neutral |-> 1, negative |-> 1, total |-> 5],
       [positive |-> 8, neutral |-> 1, negative |-> 1, total |-> 10] >>

\* the kinds with a share of 80, 0 and 35 percent
BusyKinds == {3, 4, 5}

\* the i-th hourly record of event e1, of a kind
HourlyRecord(i, kind) ==
    [ event |-> "e1", timeframe |-> "hour", timestamp |-> 8 * DayMs + i * Hour,
      positive |-> kind.positive, neutral |-> kind.neutral,
      negative |-> kind.negative, total |-> kind.total ]

\* analyzeSentimentTrends on the hourly records read, sorted by timestamp,
\* for an event without daily records
AnalyzeSentimentTrends(hourlyRecords) ==
    /\ unitOut.kind = "none"
    /\ unitIn' = [kind |-> "hourly", hourly |-> hourlyRecords]
    /\ unitOut' = Value(AnalyzeSentimentTrendsOf(Events["e1"], hourlyRecords, <<>>))
    /\ UNCHANGED <<clock, db, writes, callVars, avail, loopVars, liveVars>>

InitTrends == InitAt({EndDate})

\* short series of every kind, and long series of busy hours
NextTrends ==
    \/ \E n \in 0..MaxMixed : \E kinds \in [1..n -> 1..Len(PeriodKinds)] :
          AnalyzeSentimentTrends([i \in 1..n |-> HourlyRecord(i, PeriodKinds[kinds[i]])])
    \/ \E n \in 0..MaxPeriods : \E kinds \in [1..n -> BusyKinds] :
          AnalyzeSentimentTrends([i \in 1..n |-> HourlyRecord(i, PeriodKinds[kinds[i]])])

SpecTrends == InitTrends /\ [][NextTrends]_vars

\* lines 285-329 on the records given: the four aggregations of the
\* records read for `event` and the report assembled from them
ReportOn(event, feedback, alerts, issues, hourly, daily) ==
    /\ unitOut.kind = "none"
    /\ unitIn' = [kind |-> "report", event |-> event, feedback |-> feedback,
                  alerts |-> alerts, issues |-> issues, hourly |-> hourly,
                  daily |-> daily]
    /\ unitOut' =
          Value(AssembleReport(event, TRUE, clock,
                    [a \in Aggregators |->
                        Value(IF a = "feedback" THEN AnalyzeFeedbackOf(feedback)
                              ELSE IF a = "alerts" THEN AnalyzeAlertsOf(alerts)
                              ELSE IF a = "issues" THEN AnalyzeIssuesOf(issues)
                              ELSE AnalyzeSentimentTrendsOf(event, hourly, daily))]))
    /\ UNCHANGED <<clock, db, writes, callVars, avail, loopVars, liveVars>>

\* the issue types the recommendation switch names, and one it does not
IssueTypes ==
    <<"queue", "audio", "video", "crowding", "amenities", "content", "temperature",
      "safety", "parking", "staff">>

\* n records of a class, the i-th from the (i mod s)-th of s sources
FeedbackFrom(n, first, sentiment, issueType, s) ==
    [i \in 1..n |->
        SubmittedRecord(first + i - 1, "e1",
            [ sentiment |-> sentiment,
              score |-> IF sentiment = "positive" THEN 70
                        ELSE IF sentiment = "negative" THEN -30 ELSE 0,
              issueType |-> issueType,
              source |-> <<"direct", "survey", "manual">>[((first + i - 2) % s) + 1] ])]

\* the daily sentiment record of day d with `total` records
DailyRecord(d, total) ==
    [ event |-> "e1", timeframe |-> "day", timestamp |-> d * DayMs,
      positive |-> total - 3, neutral |-> 2, negative |-> 1, total |-> total ]

\* events of every span and daily records in and out of it; feedback of
\* every mix from one or three sources; negative feedback with every top
\* issue; alerts resolved or not, soon or late; hourly records; and every
\* combination of six conditions that each make one insight
NextReport ==
    \/ \E start \in {8 * DayMs, 8 * DayMs + 9 * Hour},
          end \in {8 * DayMs, 8 * DayMs + 9 * Hour, 8 * DayMs + 17 * Hour, 9 * DayMs,
                   9 * DayMs + 9 * Hour, 10 * DayMs, 10 * DayMs + 17 * Hour},
          totals \in [8..10 -> {0, 5, 10}], late \in BOOLEAN :
          /\ start <= end
          /\ ReportOn([id |-> "e1", startDate |-> start, endDate |-> end],
                      FeedbackFrom(10, 1, "positive", None, 3),
                      AlertsOfCounts(1, 1), IssuesOfCounts(1, 0, 1), <<>>,
                      SelectSeq([i \in 1..3 |-> DailyRecord(7 + i, totals[7 + i])],
                                LAMBDA r : r.total > 0)
                        \o (IF late THEN <<DailyRecord(12, 10)>> ELSE <<>>))
    \/ \E p \in 0..MaxMix, u \in 0..MaxMix, n \in 0..MaxMix, s \in {1, 3} :
          ReportOn(Events["e1"],
                   FeedbackFrom(p, 1, "positive", None, s)
                     \o FeedbackFrom(u, p + 1, "neutral", None, s)
                     \o FeedbackFrom(n, p + u + 1, "negative", None, s),
                   AlertsOfCounts(1, 1), IssuesOfCounts(1, 0, 1), <<>>, <<>>)
    \/ \E t \in 1..Len(IssueTypes), k \in 1..MaxMix, j \in 0..1, n \in {1, 4, 7, 10} :
          /\ j + k <= n
          /\ ReportOn(Events["e1"],
                      FeedbackFrom(1, 1, "positive", None, 2)
                        \o FeedbackFrom(j, 2, "negative", "content", 2)
                        \o FeedbackFrom(k, j + 2, "negative", IssueTypes[t], 2)
                        \o FeedbackFrom(n - j - k, j + k + 2, "negative", None, 2),
                      AlertsOfCounts(1, 1), IssuesOfCounts(1, 0, 1), <<>>, <<>>)
    \/ \E r \in 0..MaxAlertMix, o \in 0..MaxAlertMix, m \in {30, 31}, c \in 0..1 :
          /\ r + o <= MaxAlertMix
          /\ ReportOn(Events["e1"], FeedbackFrom(2, 1, "positive", None, 2),
                      [i \in 1..r |-> AlertRecord([AlertKinds[1] EXCEPT !.minutes = <<m>>])]
                        \o [i \in 1..o |-> AlertRecord(AlertKinds[6])],
                      IssuesOfCounts(1, 0, c), <<>>, <<>>)
    \/ \E n \in 0..2 : \E kinds \in [1..n -> 1..Len(PeriodKinds)] :
          ReportOn(Events["e1"], FeedbackFrom(2, 1, "positive", None, 2),
                   AlertsOfCounts(1, 1), IssuesOfCounts(1, 0, 1),
                   [i \in 1..n |-> HourlyRecord(i, PeriodKinds[kinds[i]])], <<>>)
    \/ \E instant, typed, many, solved, critical, shift \in BOOLEAN :
          ReportOn(IF instant
                   THEN [id |-> "e1", startDate |-> 8 * DayMs, endDate |-> 8 * DayMs]
                   ELSE Events["e1"],
                   FeedbackFrom(2, 1, "positive", None, IF many THEN 2 ELSE 1)
                     \o FeedbackFrom(1, 3, "negative", IF typed THEN "queue" ELSE None,
                                     IF many THEN 2 ELSE 1),
                   IF solved THEN AlertsOfCounts(1, 0)
                   ELSE [i \in 1..3 |->
                            AlertRecord([AlertKinds[1] EXCEPT !.minutes = <<31>>])]
                        \o [i \in 1..3 |-> AlertRecord(AlertKinds[6])],
                   IssuesOfCounts(1, 0, IF critical THEN 1 ELSE 0),
                   IF shift
                   THEN <<HourlyRecord(1, PeriodKinds[4]), HourlyRecord(2, PeriodKinds[3])>>
                   ELSE <<>>,
                   <<>>)

SpecReport == InitTrends /\ [][NextReport]_vars

----------------------------------------------------------------------------
(* Claims *)

\* the call's event lookup returned, with or without a document
Looked(c) == trace[c] # <<>> /\ trace[c][1].ev = "findEvent"

GateEvaluated(c) == \E i \in 1..Len(trace[c]) : trace[c][i].ev = "gate"

Started(c, a) == \E i \in 1..Len(trace[c]) :
                    trace[c][i].ev = "start" /\ trace[c][i].a = a

NoneStarted(c) == \A a \in Aggregators : ~Started(c, a) /\ agg[c][a] = "idle"

\* C1: the gate lets a call for a found event proceed if and only if
\* now > endDate, or |now - endDate| < 24 hours, or force is true; so a call
\* without force for an event that ended at any time in the past proceeds.
\* checkReportAvailability reports the same condition without force.
C1_GateIff ==
    /\ \A c \in Calls :
        (Looked(c) /\ trace[c][1].found) =>
            LET endDate == Events[arg[c].eventId].endDate
                now == callNow[c]
                allowed == \/ now > endDate
                           \/ (now - endDate < DayMs /\ endDate - now < DayMs)
                           \/ arg[c].force
            IN  /\ allowed <=> pc[c] = "join"
                /\ ~allowed <=> result[c] = Failure("NotYetAvailable", "gate")
                /\ (now > endDate /\ ~arg[c].force) => pc[c] = "join"
    /\ (avail.kind = "response" /\ avail.status = 200) =>
            LET endDate == Events[avail.eventId].endDate
            IN  avail.available <=>
                    \/ avail.at > endDate
                    \/ (avail.at - endDate < DayMs /\ endDate - avail.at < DayMs)

\* a call without force for an event that ended a day ago ("yesterday":
\* ended, and no longer within 24 hours of its end) is past the gate
C1_Witness ==
    /\ pc["c1"] = "join" /\ ~arg["c1"].force /\ callNow["c1"] = EndDate + DayMs

\* C2: when the event ends more than 24 hours after now and force is false
\* the call fails with NotYetAvailable and no aggregator is started; with
\* force true the gate passes, and the call returns a report once its four
\* aggregators have resolved.
C2_FutureEventNeedsForce ==
    \A c \in Calls :
        (GateEvaluated(c) /\ Events[arg[c].eventId].endDate - callNow[c] > DayMs) =>
            IF arg[c].force
            THEN /\ \A a \in Aggregators : Started(c, a)
                 /\ ~(result[c].kind = "error" /\ result[c].error = "NotYetAvailable")
                 /\ (\A a \in Aggregators : agg[c][a] = "done") =>
                        (pc[c] = "done" /\ result[c].kind = "report")
            ELSE /\ pc[c] = "failed"
                 /\ result[c] = Failure("NotYetAvailable", "gate")
                 /\ NoneStarted(c)

\* the call made three days before the end without force was rejected
C2_Witness ==
    /\ pc["c1"] = "failed"
    /\ ~arg["c1"].force
    /\ callNow["c1"] = EndDate - 3 * DayMs
    /\ result["c1"] = Failure("NotYetAvailable", "gate")

\* C3: when the event lookup returns no document the call fails with
\* EventNotFound whatever force is, the gate is not evaluated and no
\* aggregator read is issued.
C3_EventNotFound ==
    \A c \in Calls :
        (Looked(c) /\ ~trace[c][1].found) =>
            /\ pc[c] = "failed"
            /\ result[c] = Failure("EventNotFound", "event")
            /\ ~GateEvaluated(c)
            /\ NoneStarted(c)

\* a forced call for the unknown event failed
C3_Witness ==
    /\ arg["c1"].eventId = "e3" /\ arg["c1"].force
    /\ pc["c1"] = "failed"
    /\ Looked("c1")

IsStage(ev) == \E i \in 1..Len(Stages) : Stages[i] = ev

\* C4: no stage (insights, summary, recommendations) starts before all four
\* aggregators have resolved, and all four aggregators are started before
\* the call awaits any of them.
C4_FanOutFanIn ==
    \A c \in Calls :
        /\ \A i \in 1..Len(trace[c]) :
            /\ IsStage(trace[c][i].ev) =>
                  /\ trace[c][i].done = Aggregators
                  /\ \A a \in Aggregators : agg[c][a] = "done" /\ out[c][a].kind = "value"
            /\ trace[c][i].ev = "await" =>
                  /\ trace[c][i].started = Aggregators
                  /\ \A a \in Aggregators :
                        \E j \in 1..(i - 1) : trace[c][j].ev = "start" /\ trace[c][j].a = a
        /\ pc[c] = "join" => \A a \in Aggregators : agg[c][a] # "idle"
        /\ result[c].kind = "report" =>
              /\ \A a \in Aggregators : agg[c][a] = "done"
              /\ \E i \in 1..Len(trace[c]) : trace[c][i].ev = Stages[Len(Stages)]

\* the call returned a report and its trace ends with the three stages
C4_Witness ==
    /\ result["c1"].kind = "report"
    /\ Len(trace["c1"]) >= Len(Stages)
    /\ trace["c1"][Len(trace["c1"])].ev = Stages[Len(Stages)]

\* C5: if a read of any aggregator fails, the call fails with the error of
\* a failed aggregator (of that one when only one failed) and returns no
\* report, in every interleaving with the other aggregators.
C5_NoPartialReport ==
    \A c \in Calls :
        LET failed == {a \in Aggregators : agg[c][a] = "failed"}
        IN  failed # {} =>
                /\ pc[c] = "failed"
                /\ result[c].kind = "error"
                /\ result[c].error = "ReadFailure"
                /\ result[c].from \in failed
                /\ \A a \in Aggregators : failed = {a} => result[c] = Failure("ReadFailure", a)

\* the sentiment read failed after the other three aggregators resolved
C5_Witness ==
    /\ agg["c1"]["sentiment"] = "failed"
    /\ \A a \in Aggregators \ {"sentiment"} : agg["c1"][a] = "done"
    /\ result["c1"] = Failure("ReadFailure", "sentiment")


\* the record r without the fields in `fields`
Without(r, fields) == [f \in DOMAIN r \ fields |-> r[f]]

\* calls c and d both returned a report for the same event, and no record
\* was written from the start of either to the return of either
SameDataset(c, d) ==
    /\ c # d
    /\ result[c].kind = "report" /\ result[d].kind = "report"
    /\ arg[c].eventId = arg[d].eventId
    /\ span[c].lo = span[c].hi /\ span[d].lo = span[d].hi /\ span[c].lo = span[d].lo

\* C6 as stated: two calls for the same event on unchanged records, made at
\* any two times, return reports equal in every field but reportGeneratedAt.
C6_IdempotentButTimestamp ==
    \A c, d \in Calls :
        SameDataset(c, d) =>
            Without(result[c].report, {"reportGeneratedAt"})
                = Without(result[d].report, {"reportGeneratedAt"})

\* C6 amended: the two reports are equal in every field but
\* reportGeneratedAt and eventStatus, and eventStatus is equal too when both
\* calls are made before the event's endDate or both after it.
C6_IdempotentButTimestampAndStatus ==
    \A c, d \in Calls :
        SameDataset(c, d) =>
            LET endDate == Events[arg[c].eventId].endDate
            IN  /\ Without(result[c].report, {"reportGeneratedAt", "eventStatus"})
                      = Without(result[d].report, {"reportGeneratedAt", "eventStatus"})
                /\ ((callNow[c] > endDate) <=> (callNow[d] > endDate)) =>
                      result[c].report.eventStatus = result[d].report.eventStatus

\* two reports on the same records, one made before the end of the event
\* and one after it
C6_Witness ==
    /\ SameDataset("c1", "c2")
    /\ callNow["c1"] < EndDate /\ callNow["c2"] > EndDate
    /\ result["c1"].report.reportGeneratedAt # result["c2"].report.reportGeneratedAt

\* what a call for event e made at `now` and returning at `generatedAt`
\* computes from the records as they are now, with nothing else running
SoloReport(eventId, now, generatedAt) ==
    LET event == Events[eventId]
    IN  AssembleReport(
            event, EventEnded(now, event.endDate), generatedAt,
            [ feedback |-> Value(AnalyzeFeedbackOf(FindByEvent(db.feedback, eventId))),
              alerts |-> Value(AnalyzeAlertsOf(FindByEvent(db.alerts, eventId))),
              issues |-> Value(AnalyzeIssuesOf(FindByEvent(db.issues, eventId))),
              sentiment |-> Value(AnalyzeSentimentTrendsOf(
                                      event,
                                      FindSentiment(db.sentiment, eventId, "hour"),
                                      FindSentiment(db.sentiment, eventId, "day"))) ])

\* call c returned a report and no record was written since it started
Undisturbed(c) ==
    /\ result[c].kind = "report"
    /\ span[c].lo = span[c].hi
    /\ writes = span[c].hi

\* a step of the engine: a call or one of its aggregators moves
EngineStep == pc' # pc \/ agg' # agg \/ out' # out \/ result' # result

\* C7: calls running concurrently, for one event or for different events,
\* write no stored record, and each returns the report it would return
\* running alone on the same records (reportGeneratedAt being its own).
C7_StatelessReadOnly ==
    /\ [](\A c \in Calls :
            Undisturbed(c) =>
                result[c].report
                    = SoloReport(arg[c].eventId, callNow[c],
                                 result[c].report.reportGeneratedAt))
    /\ [][EngineStep => (db' = db /\ writes' = writes)]_vars

\* both calls returned, for different events, after running together
C7_Witness ==
    /\ Undisturbed("c1") /\ Undisturbed("c2")
    /\ arg["c1"].eventId = "e1" /\ arg["c2"].eventId = "e2"
    /\ result["c1"].report.reportGeneratedAt = result["c2"].report.reportGeneratedAt
    /\ result["c1"].report.feedback.total > 0

\* C8: for every stored feedback set analyzeFeedback returns percentages
\* whose positive + neutral + negative is 100 when total > 0 (the three
\* counts add up to total), and all three are 0 when total = 0.
C8_PercentagesSumTo100 ==
    fbOut.kind = "value" =>
        LET r == fbOut.v
            p == r.sentimentPercentages
        IN  IF r.total > 0
            THEN /\ r.sentimentCounts["positive"] + r.sentimentCounts["neutral"]
                        + r.sentimentCounts["negative"] = r.total
                 /\ \A x \in SentimentClasses : p[x].den = r.total
                 /\ p["positive"].num + p["neutral"].num + p["negative"].num
                        = 100 * r.total
            ELSE \A x \in SentimentClasses : p[x].den > 0 /\ p[x].num = 0

IsZero(p) == p.den > 0 /\ p.num = 0

\* the stored records of event e: none of any kind
NoRecords(eventId) ==
    /\ FindByEvent(db.feedback, eventId) = <<>>
    /\ FindByEvent(db.alerts, eventId) = <<>>
    /\ FindByEvent(db.issues, eventId) = <<>>
    /\ FindByEvent(db.sentiment, eventId) = <<>>

\* C9: the report of an event with no feedback, alert, issue or sentiment
\* record has every rate and percentage 0, unresolvedCount 0, empty top
\* lists, and overallScore round(50 * 0.4 + 0 * 0.3 + 0 * 0.3) = 20 with
\* the level of that score, problematic.
C9_ZeroBoundary ==
    \A c \in Calls :
        (result[c].kind = "report" /\ NoRecords(arg[c].eventId)) =>
            LET r == result[c].report
            IN  /\ r.feedback.total = 0 /\ r.alerts.total = 0 /\ r.issues.total = 0
                /\ \A x \in SentimentClasses : IsZero(r.feedback.sentimentPercentages[x])
                /\ r.feedback.netSentimentScore = 0
                /\ IsZero(r.feedback.averageSentimentScore)
                /\ IsZero(r.alerts.resolutionRate)
                /\ IsZero(r.issues.resolutionRate)
                /\ r.alerts.averageResponseTimeMinutes = 0
                /\ r.alerts.criticalResponseTimeMinutes = 0
                /\ r.issues.averageResolutionTimeMinutes = 0
                /\ r.issues.unresolvedCount = 0
                /\ r.feedback.topIssues = <<>>
                /\ r.feedback.topPositiveFeedback = <<>>
                /\ r.feedback.topNegativeFeedback = <<>>
                /\ r.summary.overallScore = (50 * 4 + 0 * 3 + 0 * 3 + 5) \div 10
                /\ r.summary.overallScore = 20
                /\ r.summary.successLevel = "problematic"
                /\ r.summary.unresolvedIssuesCount = 0
                /\ r.summary.alertsResolutionRate = 0
                /\ r.summary.issuesResolutionRate = 0

\* a report was returned for the event without records
C9_Witness ==
    /\ result["c1"].kind = "report"
    /\ arg["c1"].eventId = "e2"
    /\ NoRecords("e2")

SortedDescending(buf) == \A i \in 1..(Len(buf) - 1) : buf[i].score >= buf[i + 1].score
SortedAscending(buf) == \A i \in 1..(Len(buf) - 1) : buf[i].score <= buf[i + 1].score

\* every entry of buf is the entry of a visited record of class `class`,
\* and no record has two entries
EntriesOf(buf, class) ==
    /\ \A i \in 1..Len(buf) :
        /\ buf[i].id \in 1..Len(seen)
        /\ seen[buf[i].id].sentiment = class
        /\ seen[buf[i].id].score = buf[i].score
    /\ \A i, j \in 1..Len(buf) : buf[i].id = buf[j].id => i = j

\* C10: after every prefix of the feedback stream each top buffer holds at
\* most 5 entries, topPositiveFeedback of positive records only and
\* topNegativeFeedback of negative records only; in the returned value
\* topPositiveFeedback is sorted by score descending and
\* topNegativeFeedback by score ascending.
C10_BoundedTopK ==
    /\ Len(acc.topPositiveFeedback) <= 5
    /\ Len(acc.topNegativeFeedback) <= 5
    /\ EntriesOf(acc.topPositiveFeedback, "positive")
    /\ EntriesOf(acc.topNegativeFeedback, "negative")
    /\ fbOut.kind = "value" =>
          /\ Len(fbOut.v.topPositiveFeedback) <= 5
          /\ Len(fbOut.v.topNegativeFeedback) <= 5
          /\ EntriesOf(fbOut.v.topPositiveFeedback, "positive")
          /\ EntriesOf(fbOut.v.topNegativeFeedback, "negative")
          /\ SortedDescending(fbOut.v.topPositiveFeedback)
          /\ SortedAscending(fbOut.v.topNegativeFeedback)

\* six positive records were visited, the last one better than one kept,
\* and the value returned holds five entries with different scores
C10_Witness ==
    /\ fbOut.kind = "value"
    /\ Len(seen) = 6
    /\ \A i \in 1..Len(seen) : seen[i].sentiment = "positive"
    /\ Len(fbOut.v.topPositiveFeedback) = 5
    /\ \E i \in 1..5 : fbOut.v.topPositiveFeedback[i].id = 6
    /\ fbOut.v.topPositiveFeedback[1].score > fbOut.v.topPositiveFeedback[5].score

\* the stage run on its own returned a value for records of every kind
Summarized ==
    /\ unitIn.kind = "records"
    /\ unitOut.kind = "value"

InRate(p) == p.den > 0 /\ 0 <= p.num /\ p.num <= 100 * p.den

\* the floor of num / den with a tie of num / den to the next integer going
\* up, that is Math.round: k is round(num / den) (den > 0)
IsRoundOf(k, num, den) == (2 * k - 1) * den <= 2 * num /\ 2 * num < (2 * k + 1) * den

\* C11: for the outputs of the aggregators (netSentimentScore in [-1, 1],
\* resolution rates in [0, 100]) generateExecutiveSummary returns an integer
\* overallScore in 0..100 that is round(0.4 * clamp(50 + 50 * net)
\* + 0.3 * clamp(issue rate) + 0.3 * clamp(alert rate)).
C11_OverallScore ==
    Summarized =>
        LET r == unitOut.v
            net == r.feedback.netSentimentScore
            i == r.issues.resolutionRate
            a == r.alerts.resolutionRate
            score == r.summary.overallScore
        IN  /\ net \in -100..100 /\ InRate(i) /\ InRate(a)
            /\ score \in 0..100
            \* 0.4 * (50 + net / 2) + 0.3 * i + 0.3 * a over 20 * i.den * a.den;
            \* in these ranges no clamp changes its argument
            /\ IsRoundOf(score,
                         4 * (100 + net) * i.den * a.den + 6 * i.num * a.den
                             + 6 * a.num * i.den,
                         20 * i.den * a.den)

\* records of all three kinds whose blend is 0.4 * 100 + 0.3 * 50
\* + 0.3 * 200/3 = 75
C11_Witness ==
    /\ Summarized
    /\ unitOut.v.feedback.total > 0 /\ unitOut.v.issues.total > 0
    /\ unitOut.v.alerts.total = 3
    /\ unitOut.v.feedback.netSentimentScore = 100
    /\ PctEq(unitOut.v.issues.resolutionRate, 50)
    /\ unitOut.v.summary.overallScore = 75

\* the rank of a success level, lowest first
LevelRank(level) ==
    CASE level = "problematic" -> 0
      [] level = "challenging" -> 1
      [] level = "mixed" -> 2
      [] level = "satisfactory" -> 3
      [] level = "successful" -> 4
      [] level = "exceptional" -> 5

\* C12: successLevel is the step function of overallScore with inclusive
\* lower bounds 90 exceptional, 75 successful, 60 satisfactory, 40 mixed,
\* 25 challenging, else problematic; a higher overallScore never has a
\* lower-ranked level.
C12_SuccessLevelSteps ==
    Summarized =>
        LET score == unitOut.v.summary.overallScore
            level == unitOut.v.summary.successLevel
        IN  /\ level = "exceptional" <=> score >= 90
            /\ level = "successful" <=> (75 <= score /\ score < 90)
            /\ level = "satisfactory" <=> (60 <= score /\ score < 75)
            /\ level = "mixed" <=> (40 <= score /\ score < 60)
            /\ level = "challenging" <=> (25 <= score /\ score < 40)
            /\ level = "problematic" <=> score < 25
            /\ \A other \in 0..100 :
                  /\ other >= score => LevelRank(SuccessLevel(other)) >= LevelRank(level)
                  /\ other <= score => LevelRank(SuccessLevel(other)) <= LevelRank(level)

\* a score on the lower bound of a tier
C12_Witness ==
    /\ Summarized
    /\ unitOut.v.summary.overallScore = 60
    /\ unitOut.v.summary.successLevel = "satisfactory"

\* analyzeAlerts returned a value for the alerts given
AlertsAnalyzed ==
    /\ unitIn.kind = "alerts"
    /\ unitOut.kind = "value"

\* m is floor(mean of the response times of the alerts at positions S of
\* `alerts` / 60000), and 0 when S is empty
RECURSIVE ResponseSum(_, _)
ResponseSum(alerts, S) ==
    IF S = {} THEN 0
    ELSE LET i == CHOOSE i \in S : TRUE
         IN  alerts[i].resolvedAt[1] - alerts[i].createdAt + ResponseSum(alerts, S \ {i})

IsFloorMeanMinutes(m, alerts, S) ==
    IF S = {} THEN m = 0
    ELSE LET n == Cardinality(S)
             sum == ResponseSum(alerts, S)
         IN  m * n * 60000 <= sum /\ sum < (m + 1) * n * 60000

\* C13: averageResponseTimeMinutes is floor(mean of resolvedAt - createdAt
\* in ms / 60000) over exactly the alerts with status resolved and a
\* resolution timestamp, 0 when there is none; criticalResponseTimeMinutes
\* is the same over those of severity critical; five resolved alerts with
\* response times 10, 20, 30, 40, 50 minutes give 30.
C13_ResponseMinutes ==
    AlertsAnalyzed =>
        LET alerts == unitIn.alerts
            timed == {i \in 1..Len(alerts) :
                        alerts[i].status = "resolved" /\ alerts[i].resolvedAt # <<>>}
            critical == {i \in timed : alerts[i].severity = "critical"}
            minutes == {(alerts[i].resolvedAt[1] - alerts[i].createdAt) \div 60000 :
                            i \in timed}
        IN  /\ IsFloorMeanMinutes(unitOut.v.averageResponseTimeMinutes, alerts, timed)
            /\ IsFloorMeanMinutes(unitOut.v.criticalResponseTimeMinutes, alerts, critical)
            /\ (Cardinality(timed) = 5 /\ Len(alerts) = 5
                    /\ minutes = {10, 20, 30, 40, 50}) =>
                  unitOut.v.averageResponseTimeMinutes = 30

\* the scenario's five resolved alerts, two of them critical (20 and 50
\* minutes)
C13_Witness ==
    /\ AlertsAnalyzed
    /\ Len(unitIn.alerts) = 5
    /\ \A i \in 1..5 : unitIn.alerts[i].status = "resolved"
    /\ {unitIn.alerts[i].resolvedAt[1] - unitIn.alerts[i].createdAt : i \in 1..5}
           = {10 * Minute, 20 * Minute, 30 * Minute, 40 * Minute, 50 * Minute}
    /\ unitOut.v.averageResponseTimeMinutes = 30
    /\ unitOut.v.criticalResponseTimeMinutes = 35

\* the sum of the values of a counting object
RECURSIVE SumValues(_, _)
SumValues(counts, keys) ==
    IF keys = {} THEN 0
    ELSE LET k == CHOOSE k \in keys : TRUE
         IN  counts[k] + SumValues(counts, keys \ {k})

SumAll(counts) == SumValues(counts, DOMAIN counts)

\* C20: for alerts of the types sos, sentiment, issue, trend and system the
\* values of typeCounts, of severityCounts and of statusCounts each sum to
\* total; the timeline has one entry per creation day in ascending date
\* order, the entries' counts sum to total, and in each entry byType and
\* bySeverity sum to the entry's count and resolved <= count.  (A value that
\* is NaN makes a sum NaN, which equals nothing.)
C20_AlertCountPartition ==
    AlertsAnalyzed =>
        LET alerts == unitIn.alerts
            r == unitOut.v
            days == {DayOf(alerts[i].createdAt) : i \in 1..Len(alerts)}
            line == r.timeline
        IN  /\ r.total = Len(alerts)
            /\ r.typeNaN = {} /\ SumAll(r.typeCounts) = r.total
            /\ SumAll(r.severityCounts) = r.total
            /\ SumAll(r.statusCounts) = r.total
            /\ Len(line) = Cardinality(days)
            /\ {line[i].date : i \in 1..Len(line)} = days
            /\ \A i \in 1..(Len(line) - 1) : line[i].date < line[i + 1].date
            /\ SumSeq([i \in 1..Len(line) |-> line[i].count]) = r.total
            /\ \A i \in 1..Len(line) :
                  /\ line[i].byTypeNaN = {}
                  /\ SumAll(line[i].byType) = line[i].count
                  /\ SumAll(line[i].bySeverity) = line[i].count
                  /\ line[i].resolved <= line[i].count

\* analyzeSentimentTrends returned a value for the hourly records given
TrendsAnalyzed ==
    /\ unitIn.kind = "hourly"
    /\ unitOut.kind = "value"

\* the positions of the hourly records with total >= 5
SignificantAt(hourly) == {i \in 1..Len(hourly) : hourly[i].total >= 5}

\* `peak` is the placeholder, or the entry of a record at a position of S
\* whose share of `f` is the greatest of S
IsPeakOf(peak, hourly, S, f) ==
    /\ peak.kind = "period" => peak.total >= 5
    /\ \/ peak.kind = "placeholder" /\ peak[f] = 0 /\ "timestamp" \notin DOMAIN peak
       \/ \E i \in S :
            /\ peak.kind = "period"
            /\ peak.timestamp = hourly[i].timestamp
            /\ peak.total = hourly[i].total /\ peak[f] = hourly[i][f]
            /\ \A j \in S : hourly[i][f] * hourly[j].total >= hourly[j][f] * hourly[i].total
    /\ S = {} => peak.kind = "placeholder"

\* C14: peakNegativePeriod (peakPositivePeriod) is never an hourly bucket
\* with total < 5: it is the placeholder, or a bucket with total >= 5 whose
\* negative (positive) share is the greatest among the buckets with
\* total >= 5; with no such bucket it is the placeholder, which has a zero
\* count and no timestamp.
C14_PeakSignificance ==
    TrendsAnalyzed =>
        LET hourly == unitIn.hourly
            S == SignificantAt(hourly)
        IN  /\ IsPeakOf(unitOut.v.peakNegativePeriod, hourly, S, "negative")
            /\ IsPeakOf(unitOut.v.peakPositivePeriod, hourly, S, "positive")

\* a bucket of 3, all negative, before a bucket of 10 with 8 negative: the
\* peak is the second
C14_Witness ==
    /\ TrendsAnalyzed
    /\ Len(unitIn.hourly) = 2
    /\ unitIn.hourly[1].total = 3 /\ unitIn.hourly[1].negative = 3
    /\ unitIn.hourly[2].total = 10 /\ unitIn.hourly[2].negative = 8
    /\ unitOut.v.peakNegativePeriod.kind = "period"
    /\ unitOut.v.peakNegativePeriod.timestamp = unitIn.hourly[2].timestamp

\* the hourly records with total >= 5, in order
SignificantRecords(hourly) == SelectSeq(hourly, LAMBDA r : r.total >= 5)

\* 100 times the change of the negative share from record a to record b,
\* over the denominator a.total * b.total
ShareChange(a, b) == 100 * (b.negative * a.total - a.negative * b.total)

\* the change points of the significant records sig: the pairs (k, k + 1)
\* whose negative shares differ by 15 points or more, in order
ChangePoints(sig) ==
    LET pairs == IF Len(sig) < 2 THEN <<>>
                 ELSE [k \in 1..(Len(sig) - 1) |->
                          [ from |-> sig[k].timestamp,
                            to |-> sig[k + 1].timestamp,
                            change |-> ShareChange(sig[k], sig[k + 1]),
                            den |-> sig[k].total * sig[k + 1].total ]]
        qualifying == SelectSeq(pairs, LAMBDA c :
                                    c.change >= 15 * c.den \/ -c.change >= 15 * c.den)
    IN  [k \in 1..Len(qualifying) |->
            [ from |-> qualifying[k].from,
              to |-> qualifying[k].to,
              direction |-> IF qualifying[k].change > 0 THEN "negative" ELSE "positive" ]]

\* the entries of sentimentChanges without their changePct
Recorded(changes) ==
    [k \in 1..Len(changes) |->
        [from |-> changes[k].from, to |-> changes[k].to,
         direction |-> changes[k].direction]]

InSeq(x, s) == \E k \in 1..Len(s) : s[k] = x

Answered(error) ==
    /\ resp["c1"].kind = "response"
    /\ result["c1"].kind = "error"
    /\ result["c1"].error = error

\* C16: a report endpoint answers EventNotFound with 404, NotYetAvailable
\* with 400 and a failed read with 500, and every answer to a failure has
\* success = false and no report data.
C16_ErrorMapping ==
    /\ Answered("EventNotFound") => resp["c1"].status = 404
    /\ Answered("NotYetAvailable") => resp["c1"].status = 400
    /\ Answered("ReadFailure") => resp["c1"].status = 500
    /\ resp["c1"].kind = "response" /\ result["c1"].kind = "error"
         => ~resp["c1"].success /\ resp["c1"].data = <<>>

\* the visited records of a class, in order
SeenOf(class) == SelectSeq(seen, LAMBDA r : r.sentiment = class)

\* how many entries of a sequence of records or entries have score s
CountScore(entries, s) == Cardinality({i \in 1..Len(entries) : entries[i].score = s})

\* buf holds, score by score, the multiset of the min(5, n) best scores of
\* the n records (the highest for sign 1, the lowest for sign -1): for
\* every score, as many entries as records have it, short of the places
\* the better scores leave among the 5
IsBestOf(buf, records, sign) ==
    LET k == IF Len(records) < 5 THEN Len(records) ELSE 5
        scores == {records[i].score : i \in 1..Len(records)}
                    \cup {buf[i].score : i \in 1..Len(buf)}
        better(s) == Cardinality({i \in 1..Len(records) : sign * records[i].score > sign * s})
        left(s) == IF k > better(s) THEN k - better(s) ELSE 0
        have(s) == CountScore(records, s)
    IN  /\ Len(buf) = k
        /\ \A s \in scores :
              CountScore(buf, s) = IF have(s) < left(s) THEN have(s) ELSE left(s)

\* the record visited by the step, when the step is a visit
Visiting == IF Len(seen') = Len(seen) + 1 THEN <<seen'[Len(seen')]>> ELSE <<>>

\* C17: after every prefix of the stream, and in the value returned, the
\* scores of topPositiveFeedback are the multiset of the min(5, n) highest
\* scores of the positive records and those of topNegativeFeedback the
\* min(5, n) lowest scores of the negative records; a step changes a
\* buffer that holds 5 entries only when it visits a record of the
\* buffer's class that is strictly better than the buffer's worst entry.
C17_StreamingTopK ==
    /\ [](/\ IsBestOf(acc.topPositiveFeedback, SeenOf("positive"), 1)
          /\ IsBestOf(acc.topNegativeFeedback, SeenOf("negative"), -1)
          /\ fbOut.kind = "value" =>
                /\ IsBestOf(fbOut.v.topPositiveFeedback, SeenOf("positive"), 1)
                /\ IsBestOf(fbOut.v.topNegativeFeedback, SeenOf("negative"), -1))
    /\ [][/\ Len(acc.topPositiveFeedback) = 5
             /\ acc'.topPositiveFeedback # acc.topPositiveFeedback
             => /\ Visiting # <<>>
                /\ Visiting[1].sentiment = "positive"
                /\ \E i \in 1..5 : Visiting[1].score > acc.topPositiveFeedback[i].score
          /\ Len(acc.topNegativeFeedback) = 5
             /\ acc'.topNegativeFeedback # acc.topNegativeFeedback
             => /\ Visiting # <<>>
                /\ Visiting[1].sentiment = "negative"
                /\ \E i \in 1..5 : Visiting[1].score < acc.topNegativeFeedback[i].score
         ]_vars

\* five negative records of score -0.30 filled the buffer, a sixth of
\* score -0.70 replaced one of them, and the value returned lists it first
C17_Witness ==
    /\ fbOut.kind = "value"
    /\ Len(seen) = 6
    /\ \A i \in 1..5 : seen[i].sentiment = "negative" /\ seen[i].score = -30
    /\ seen[6].sentiment = "negative" /\ seen[6].score = -70
    /\ Len(fbOut.v.topNegativeFeedback) = 5
    /\ fbOut.v.topNegativeFeedback[1].id = 6
    /\ fbOut.v.topNegativeFeedback[2].score = -30

\* how many of the records given have the sentiment class
CountClass(records, class) ==
    Cardinality({i \in 1..Len(records) : records[i].sentiment = class})

\* k hundredths is num / den rounded to 2 decimals (den > 0)
IsHundredthsOf(k, num, den) ==
    LET off == 100 * num - k * den
    IN  2 * (IF off < 0 THEN -off ELSE off) <= den

\* C19: netSentimentScore is (positive count - negative count) / total
\* rounded to 2 decimals, 0 when there is no feedback, and lies in
\* [-1, 1]; 7 positive, 2 neutral and 1 negative records of 10 give the
\* percentages 70, 20 and 10 and the score 0.60.
C19_NetSentimentScore ==
    Summarized =>
        LET records == unitIn.feedback
            total == Len(records)
            positive == CountClass(records, "positive")
            neutral == CountClass(records, "neutral")
            negative == CountClass(records, "negative")
            fb == unitOut.v.feedback
        IN  /\ fb.netSentimentScore \in -100..100
            /\ total = 0 => fb.netSentimentScore = 0
            /\ total > 0 => IsHundredthsOf(fb.netSentimentScore, positive - negative, total)
            /\ total = 10 /\ positive = 7 /\ neutral = 2 /\ negative = 1
               => /\ PctEq(fb.sentimentPercentages["positive"], 70)
                  /\ PctEq(fb.sentimentPercentages["neutral"], 20)
                  /\ PctEq(fb.sentimentPercentages["negative"], 10)
                  /\ fb.netSentimentScore = 60

\* the feedback of the scenario: 7 positive, 2 neutral, 1 negative of 10,
\* scored 0.60
C19_Witness ==
    /\ Summarized
    /\ Len(unitIn.feedback) = 10
    /\ CountClass(unitIn.feedback, "positive") = 7
    /\ CountClass(unitIn.feedback, "negative") = 1
    /\ unitOut.v.feedback.netSentimentScore = 60
    /\ PctEq(unitOut.v.feedback.sentimentPercentages["positive"], 70)

\* analyzeIssues returned a value for the issues given
IssuesAnalyzed ==
    /\ unitIn.kind = "issues"
    /\ unitOut.kind = "value"

\* how many of the issues given have the status
CountStatus(issues, status) ==
    Cardinality({i \in 1..Len(issues) : issues[i].status = status})

\* C21: resolutionRate is 100 * (resolved + falsePositive) / total, 0 for
\* no issues; unresolvedCount is total - resolved - falsePositive, which is
\* detected + confirmed + inProgress and not negative; resolutionRate is
\* 100 exactly when unresolvedCount is 0 and total > 0;
\* averageResolutionTimeMinutes is taken over the issues with status
\* resolved and a resolution timestamp only.
C21_IssueAggregation ==
    IssuesAnalyzed =>
        LET issues == unitIn.issues
            total == Len(issues)
            closed == CountStatus(issues, "resolved") + CountStatus(issues, "falsePositive")
            rate == unitOut.v.resolutionRate
            timed == {i \in 1..total :
                        issues[i].status = "resolved" /\ issues[i].resolvedAt # <<>>}
        IN  /\ total = 0 => PctEq(rate, 0)
            /\ total > 0 => rate.den > 0 /\ rate.num * total = 100 * closed * rate.den
            /\ unitOut.v.unresolvedCount = total - closed
            /\ unitOut.v.unresolvedCount =
                  CountStatus(issues, "detected") + CountStatus(issues, "confirmed")
                    + CountStatus(issues, "inProgress")
            /\ unitOut.v.unresolvedCount >= 0
            /\ PctEq(rate, 100) <=> (unitOut.v.unresolvedCount = 0 /\ total > 0)
            /\ IsFloorMeanMinutes(unitOut.v.averageResolutionTimeMinutes, issues, timed)

\* a resolved issue closed after 30 minutes and a false positive that
\* carries a timestamp: the rate is 100 and the average is 30 minutes
C21_Witness ==
    /\ IssuesAnalyzed
    /\ Len(unitIn.issues) = 2
    /\ unitIn.issues[1].status = "resolved"
    /\ unitIn.issues[1].resolvedAt = <<unitIn.issues[1].createdAt + 30 * Minute>>
    /\ unitIn.issues[2].status = "falsePositive" /\ unitIn.issues[2].resolvedAt # <<>>
    /\ PctEq(unitOut.v.resolutionRate, 100)
    /\ unitOut.v.unresolvedCount = 0
    /\ unitOut.v.averageResolutionTimeMinutes = 30

\* a report was assembled from the records given
ReportMade ==
    /\ unitIn.kind = "report"
    /\ unitOut.kind = "value"

\* the daily records given that are dated on day d
RecordsOfDay(d) ==
    SelectSeq(unitIn.daily, LAMBDA r : DayOf(r.timestamp) = d)

\* C22: for an event with startDate <= endDate, eventDayCount is the number
\* of calendar days from the start day to the end day inclusive, and
\* dailyVolume has exactly one entry for each of those days, ascending,
\* with zeros where no daily record exists and the record's counts where
\* one does; a daily record outside the span adds no entry.
C22_DailyVolumeDays ==
    ReportMade /\ unitIn.event.startDate <= unitIn.event.endDate =>
        LET first == DayOf(unitIn.event.startDate)
            last == DayOf(unitIn.event.endDate)
            volume == unitOut.v.sentiment.dailyVolume
        IN  /\ unitOut.v.sentiment.eventDayCount = last - first + 1
            /\ Len(volume) = last - first + 1
            /\ \A k \in 1..Len(volume) :
                  /\ volume[k].date = first + k - 1
                  /\ LET records == RecordsOfDay(volume[k].date)
                     IN  IF records = <<>>
                         THEN /\ volume[k].total = 0 /\ volume[k].positive = 0
                              /\ volume[k].neutral = 0 /\ volume[k].negative = 0
                         ELSE \E i \in 1..Len(records) :
                                /\ volume[k].total = records[i].total
                                /\ volume[k].positive = records[i].positive
                                /\ volume[k].neutral = records[i].neutral
                                /\ volume[k].negative = records[i].negative

\* the rule names of the insights after the second, in the order of the
\* code
LaterRules == <<"issues", "alerts", "critical", "engagement", "shift", "channels">>

\* the position of a rule name in LaterRules
RuleRank(rule) == CHOOSE i \in 1..Len(LaterRules) : LaterRules[i] = rule

\* C23: the insight list starts with the 'Event Scale' insight, then holds
\* exactly one sentiment-reception insight, then at most one insight of
\* each of the rules top-issues, alert-management, critical-issues,
\* engagement-pattern, sentiment-shift, feedback-channels, in that order;
\* its length is between 2 and 8.
C23_InsightShape ==
    ReportMade =>
        LET insights == unitOut.v.insights
            n == Len(insights)
        IN  /\ 2 <= n /\ n <= 8
            /\ insights[1].rule = "scale" /\ insights[1].title = "Event Scale"
            /\ insights[2].rule = "reception"
            /\ \A i \in 3..n : \E r \in 1..Len(LaterRules) : insights[i].rule = LaterRules[r]
            /\ \A i, j \in 3..n :
                  i < j => RuleRank(insights[i].rule) < RuleRank(insights[j].rule)

\* a report with all eight insights
C23_Witness ==
    /\ ReportMade
    /\ Len(unitOut.v.insights) = 8
    /\ [i \in 1..6 |-> unitOut.v.insights[i + 2].rule] = LaterRules

\* the insights of a rule in the report made
InsightsOf(rule) == SelectSeq(unitOut.v.insights, LAMBDA x : x.rule = rule)

\* C24: the reception insight is the first match of positive% > 75
\* (Overwhelmingly Positive), positive% > 60 (Generally Positive),
\* negative% > 50 (Predominantly Negative), otherwise Mixed; exactly one
\* is emitted for every feedback distribution, and the shares 75, 60 and 50
\* fall into the next band down.
C24_ReceptionBands ==
    ReportMade =>
        LET total == Len(unitIn.feedback)
            positive == CountClass(unitIn.feedback, "positive")
            negative == CountClass(unitIn.feedback, "negative")
            title == IF 100 * positive > 75 * total
                     THEN "Overwhelmingly Positive Feedback"
                     ELSE IF 100 * positive > 60 * total
                     THEN "Generally Positive Reception"
                     ELSE IF 100 * negative > 50 * total
                     THEN "Predominantly Negative Reception"
                     ELSE "Mixed Reception"
        IN  /\ Len(InsightsOf("reception")) = 1
            /\ InsightsOf("reception")[1].title = title
            /\ \A i \in 1..Len(unitOut.v.insights) :
                  unitOut.v.insights[i].title
                      \in {"Overwhelmingly Positive Feedback", "Generally Positive Reception",
                           "Predominantly Negative Reception", "Mixed Reception"}
                  => i = 2

\* three of four records are positive, a share of exactly 75: the band is
\* Generally Positive
C24_Witness ==
    /\ ReportMade
    /\ Len(unitIn.feedback) = 4
    /\ CountClass(unitIn.feedback, "positive") = 3
    /\ unitOut.v.insights[2].title = "Generally Positive Reception"

\* C25: the engagement-pattern insight is emitted exactly when dailyVolume
\* holds more than one day, and then names the pattern by the place of the
\* day with the highest total, the earliest of them on a tie: the first
\* day, the last day or a day between.
C25_EngagementPattern ==
    ReportMade =>
        LET volume == unitOut.v.sentiment.dailyVolume
            found == InsightsOf("engagement")
            IsPeak(i) == /\ \A j \in 1..Len(volume) : volume[j].total <= volume[i].total
                         /\ \A j \in 1..(i - 1) : volume[j].total < volume[i].total
        IN  /\ Len(found) = IF Len(volume) > 1 THEN 1 ELSE 0
            /\ Len(volume) > 1 =>
                  /\ found[1].title = "Engagement Pattern"
                  /\ found[1].pattern = "first" <=> IsPeak(1)
                  /\ found[1].pattern = "last" <=> IsPeak(Len(volume))
                  /\ found[1].pattern = "middle" <=>
                        \E i \in 2..(Len(volume) - 1) : IsPeak(i)

\* three days with totals 10, 5, 10: the first of the two highest days
\* decides, and the pattern is front-loaded
C25_Witness ==
    /\ ReportMade
    /\ Len(unitOut.v.sentiment.dailyVolume) = 3
    /\ unitOut.v.sentiment.dailyVolume[1].total = 10
    /\ unitOut.v.sentiment.dailyVolume[2].total = 5
    /\ unitOut.v.sentiment.dailyVolume[3].total = 10
    /\ InsightsOf("engagement")[1].pattern = "first"

\* the recommendations of the report made whose area and title are those
\* of a top-issue recommendation
IsTopIssueRecommendation(x) ==
    x.area \in {"Logistics", "Technical", "Venue", "Services", "Programming", "Security",
                "General"}

\* the issue types of the negative records given, with their counts, in
\* the order of their first records
NegativeIssueCounts ==
    LET negative == SelectSeq(unitIn.feedback,
                              LAMBDA r : r.sentiment = "negative" /\ r.issueType # None)
    IN  BumpAll(<<>>, [i \in 1..Len(negative) |-> negative[i].issueType])

\* C26: when topIssues is not empty exactly one recommendation is made
\* from topIssues[0] and it is the first of the list, with the area of the
\* issue type (General 'Address {type} Issues' for a type without a
\* template) and priority high iff the issue's share of the negative
\* feedback is > 30 (> 25 for temperature and for General), safety being
\* high for every share; when topIssues is empty there is none.
C26_TopIssueRecommendation ==
    ReportMade =>
        LET list == unitOut.v.improvement
            made == SelectSeq(list, IsTopIssueRecommendation)
            top == unitOut.v.feedback.topIssues
            negative == CountClass(unitIn.feedback, "negative")
            area(t) == CASE t = "queue" -> "Logistics"
                         [] t \in {"audio", "video"} -> "Technical"
                         [] t \in {"crowding", "temperature"} -> "Venue"
                         [] t = "amenities" -> "Services"
                         [] t = "content" -> "Programming"
                         [] t = "safety" -> "Security"
                         [] OTHER -> "General"
            bar(t) == IF t = "temperature" \/ area(t) = "General" THEN 25 ELSE 30
        IN  IF top = <<>> THEN made = <<>>
            ELSE /\ Len(made) = 1
                 /\ list[1] = made[1]
                 /\ made[1].area = area(top[1].issue)
                 /\ area(top[1].issue) = "General" => made[1].issue = top[1].issue
                 /\ \E i \in 1..Len(NegativeIssueCounts) :
                       /\ NegativeIssueCounts[i].key = top[1].issue
                       /\ made[1].priority = "high" <=>
                             \/ top[1].issue = "safety"
                             \/ 100 * NegativeIssueCounts[i].count
                                   > bar(top[1].issue) * negative
                 /\ made[1].priority \in {"high", "medium"}

\* three of ten negative records name the queue, a share of exactly 30:
\* the recommendation is Logistics with priority medium
C26_Witness ==
    /\ ReportMade
    /\ CountClass(unitIn.feedback, "negative") = 10
    /\ Len(unitOut.v.feedback.topIssues) = 1
    /\ unitOut.v.feedback.topIssues[1].issue = "queue"
    /\ unitOut.v.feedback.topIssues[1].count = 3
    /\ unitOut.v.improvement[1].area = "Logistics"
    /\ unitOut.v.improvement[1].priority = "medium"

\* C27: the recommendation list holds, in the order of the rules and
\* whatever their priorities, exactly one recommendation for each rule
\* whose condition holds and none for the others: a top issue exists;
\* alert resolutionRate < 70; averageResponseTimeMinutes > 30 and more than
\* 5 alerts; negative% > 30; total / eventDayCount < 10 and total > 0; at
\* most 2 distinct sources; positive% > 60.
C27_RecommendationRules ==
    ReportMade =>
        LET list == unitOut.v.improvement
            fb == unitOut.v.feedback
            al == unitOut.v.alerts
            days == unitOut.v.sentiment.eventDayCount
            sources == {unitIn.feedback[i].source : i \in 1..Len(unitIn.feedback)}
            If(cond, title) == IF cond THEN <<title>> ELSE <<>>
            expected ==
                If(fb.topIssues # <<>>, "top issue")
                \o If(al.resolutionRate.num < 70 * al.resolutionRate.den,
                      "Improve Alert Response System")
                \o If(al.averageResponseTimeMinutes > 30 /\ al.total > 5,
                      "Decrease Alert Response Time")
                \o If(fb.sentimentPercentages["negative"].num
                          > 30 * fb.sentimentPercentages["negative"].den,
                      "Address Negative Sentiment Patterns")
                \o If(fb.total < 10 * days /\ fb.total > 0, "Increase Feedback Collection")
                \o If(Cardinality(sources) <= 2, "Diversify Feedback Channels")
                \o If(fb.sentimentPercentages["positive"].num
                          > 60 * fb.sentimentPercentages["positive"].den,
                      "Build on Positive Elements")
        IN  /\ days > 0
            /\ [i \in 1..Len(list) |->
                   IF IsTopIssueRecommendation(list[i]) THEN "top issue" ELSE list[i].title]
                 = expected

\* ten alerts, seven of them resolved after 31 minutes: a rate of exactly
\* 70 makes no recommendation, the response time makes one of priority
\* medium, and it stands before the later ones
C27_Witness ==
    /\ ReportMade
    /\ unitOut.v.alerts.total = 10
    /\ PctEq(unitOut.v.alerts.resolutionRate, 70)
    /\ unitOut.v.alerts.averageResponseTimeMinutes = 31
    /\ Len(unitOut.v.improvement) = 4
    /\ unitOut.v.improvement[1].title = "Decrease Alert Response Time"
    /\ unitOut.v.improvement[4].title = "Build on Positive Elements"

(***************************************************************************)
(* The socket client registry: 'join-event', 'leave-event' and the         *)
(* disconnect handler, over the Map connectedClients.  A handler runs      *)
(* without interruption up to its await; 'join-event' awaits               *)
(* Event.findById before it registers the socket.                          *)
(***************************************************************************)

\* connectedClients.get(eventId), the empty set where the Map has no entry
ClientsOf(eventId) ==
    IF eventId \in DOMAIN connectedClients THEN connectedClients[eventId] ELSE {}

\* getConnectionCount
getConnectionCount(eventId) ==
    IF eventId \in DOMAIN connectedClients THEN Cardinality(connectedClients[eventId]) ELSE 0

\* 'join-event', up to its await: the lookup of the event is pending
JoinEvent(s, eventId) ==
    /\ sockets[s].connected
    /\ eventId \notin sockets[s].joining
    /\ sockets' = [sockets EXCEPT ![s].joining = @ \cup {eventId}]
    /\ UNCHANGED <<clock, db, writes, callVars, avail, loopVars, unitVars,
                   connectedClients, activeStreams, timers, starts>>

\* 'join-event', after its await: no event, or the socket is registered
JoinLookupReturn(s, eventId) ==
    /\ eventId \in sockets[s].joining
    /\ sockets' = [sockets EXCEPT ![s].joining = @ \ {eventId}]
    /\ connectedClients' =
           IF FindById(eventId) = <<>>
           THEN connectedClients
           ELSE (eventId :> (ClientsOf(eventId) \cup {s})) @@ connectedClients
    /\ UNCHANGED <<clock, db, writes, callVars, avail, loopVars, unitVars,
                   activeStreams, timers, starts>>

\* 'join-event', its await rejected: the catch block reports and returns
JoinLookupThrow(s, eventId) ==
    /\ eventId \in sockets[s].joining
    /\ sockets' = [sockets EXCEPT ![s].joining = @ \ {eventId}]
    /\ UNCHANGED <<clock, db, writes, callVars, avail, loopVars, unitVars,
                   connectedClients, activeStreams, timers, starts>>

\* 'leave-event'
LeaveEvent(s, eventId) ==
    /\ sockets[s].connected
    /\ connectedClients' =
           IF eventId \in DOMAIN connectedClients
           THEN [connectedClients EXCEPT ![eventId] = @ \ {s}]
           ELSE connectedClients
    /\ UNCHANGED <<clock, db, writes, callVars, avail, loopVars, unitVars,
                   sockets, activeStreams, timers, starts>>

\* handleSocketDisconnect
Disconnect(s) ==
    /\ sockets[s].connected
    /\ sockets' = [sockets EXCEPT ![s].connected = FALSE]
    /\ connectedClients' = [e \in DOMAIN connectedClients |-> connectedClients[e] \ {s}]
    /\ UNCHANGED <<clock, db, writes, callVars, avail, loopVars, unitVars,
                   activeStreams, timers, starts>>

NextSockets ==
    \/ \E s \in Sockets, e \in EventIds : JoinEvent(s, e)
    \/ \E s \in Sockets, e \in EventIds : JoinLookupReturn(s, e)
    \/ \E s \in Sockets, e \in EventIds : JoinLookupThrow(s, e)
    \/ \E s \in Sockets, e \in EventIds : LeaveEvent(s, e)
    \/ \E s \in Sockets : Disconnect(s)

SpecSockets == InitAlerts /\ [][NextSockets]_vars

\* C28: a socket that has disconnected is a member of no event's
\* connectedClients set, so getConnectionCount(eventId) counts connected
\* sockets only
C28_DisconnectedNotCounted ==
    \A e \in EventIds :
        /\ \A s \in Sockets : ~sockets[s].connected => s \notin ClientsOf(e)
        /\ getConnectionCount(e) <=
               Cardinality({s \in Sockets : sockets[s].connected})

(***************************************************************************)
(* The stream registry: startEventStream and stopEventStream over the Map  *)
(* activeStreams, with no TWITTER_BEARER_TOKEN in the environment (the     *)
(* mock stream, a timer of setInterval).  timers[i] is the i-th timer      *)
(* made; clearInterval sets its `live` to FALSE.                           *)
(***************************************************************************)

\* clearInterval(i)
ClearInterval(ts, i) == [ts EXCEPT ![i].live = FALSE]

\* activeStreams.delete(eventId)
MapDelete(map, key) == [k \in DOMAIN map \ {key} |-> map[k]]

\* startEventStream, up to `await Event.findById(eventId)`: the event has an
\* entry ('Stream already running'), or the lookup is pending
StartEventStream(k, eventId) ==
    /\ starts[k].pc # "findEvent"
    /\ starts' = [starts EXCEPT ![k] =
                     IF eventId \in DOMAIN activeStreams
                     THEN [pc |-> "returned", eventId |-> eventId]
                     ELSE [pc |-> "findEvent", eventId |-> eventId]]
    /\ UNCHANGED <<clock, db, writes, callVars, avail, loopVars, unitVars,
                   connectedClients, sockets, activeStreams, timers>>

\* the catch block of startEventStream: the entry of the event, if there is
\* one, is cleared and deleted, and the error is rethrown
StartCatch(k) ==
    LET eventId == starts[k].eventId IN
    /\ starts' = [starts EXCEPT ![k].pc = "failed"]
    /\ IF eventId \in DOMAIN activeStreams
       THEN /\ timers' = ClearInterval(timers, activeStreams[eventId].mockInterval)
            /\ activeStreams' = MapDelete(activeStreams, eventId)
       ELSE UNCHANGED <<activeStreams, timers>>

\* startEventStream after the lookup, for an event with tracking terms:
\* setInterval, activeStreams.set, and the three initial mock tweets, each
\* stored by processTweet or dropped by its catch
StartRegister(k, stored) ==
    LET eventId == starts[k].eventId IN
    /\ starts[k].pc = "findEvent"
    /\ IF FindById(eventId) = <<>>
       THEN /\ StartCatch(k)
            /\ UNCHANGED <<db, writes>>
       ELSE /\ Len(timers) < MaxTimers
            /\ Len(db.feedback) + stored <= MaxFeedback
            /\ timers' = Append(timers, [event |-> eventId, live |-> TRUE])
            /\ activeStreams' =
                   (eventId :> [mockInterval |-> Len(timers) + 1, startTime |-> clock,
                                isMock |-> TRUE]) @@ activeStreams
            /\ db' = [db EXCEPT !.feedback =
                         @ \o [i \in 1..stored |-> TweetRecord(Len(@) + i, eventId, "love")]]
            /\ writes' = writes + stored
            /\ starts' = [starts EXCEPT ![k].pc = "returned"]
    /\ UNCHANGED <<clock, callVars, avail, loopVars, unitVars, connectedClients, sockets>>

\* startEventStream after the lookup: Event.findById rejected, or the event
\* has no tracking terms
StartThrow(k) ==
    /\ starts[k].pc = "findEvent"
    /\ StartCatch(k)
    /\ UNCHANGED <<clock, db, writes, callVars, avail, loopVars, unitVars,
                   connectedClients, sockets>>

\* stopEventStream: 'No active stream found', or the recorded timer is
\* cleared and the entry deleted
StopEventStream(eventId) ==
    /\ IF eventId \in DOMAIN activeStreams
       THEN /\ timers' = ClearInterval(timers, activeStreams[eventId].mockInterval)
            /\ activeStreams' = MapDelete(activeStreams, eventId)
       ELSE UNCHANGED <<activeStreams, timers>>
    /\ UNCHANGED <<clock, db, writes, callVars, avail, loopVars, unitVars,
                   connectedClients, sockets, starts>>

\* the callback of setInterval: one mock tweet through processTweet
MockInterval(i) ==
    /\ i \in DOMAIN timers
    /\ timers[i].live
    /\ Len(db.feedback) < MaxFeedback
    /\ db' = [db EXCEPT !.feedback =
                 Append(@, TweetRecord(Len(@) + 1, timers[i].event, "love"))]
    /\ writes' = writes + 1
    /\ UNCHANGED <<clock, callVars, avail, loopVars, unitVars, liveVars>>

NextStreams ==
    \/ \E k \in StartCalls, e \in EventIds : StartEventStream(k, e)
    \/ \E k \in StartCalls, n \in 0..3 : StartRegister(k, n)
    \/ \E k \in StartCalls : StartThrow(k)
    \/ \E e \in EventIds : StopEventStream(e)
    \/ \E i \in 1..MaxTimers : MockInterval(i)

SpecStreams == InitAlerts /\ [][NextStreams]_vars

\* the timers of the event that run
LiveTimers(ts, eventId) == {i \in DOMAIN ts : ts[i].event = eventId /\ ts[i].live}

\* at most one timer of the event runs, and it is the one activeStreams records
RegistryExact ==
    \A e \in EventIds :
        LiveTimers(timers, e) =
            IF e \in DOMAIN activeStreams THEN {activeStreams[e].mockInterval} ELSE {}

\* a step of stopEventStream that found an entry leaves no timer of the event running
StopLeavesNone ==
    \A e \in EventIds :
        (starts' = starts /\ e \in DOMAIN activeStreams /\ e \notin DOMAIN activeStreams')
            => LiveTimers(timers', e) = {}

\* a step in which a call of startEventStream fails leaves the registry and
\* the timers as they were
FailingStartHarmless ==
    \A k \in StartCalls :
        (starts[k].pc = "findEvent" /\ starts'[k].pc = "failed")
            => (activeStreams' = activeStreams /\ timers' = timers)

UpdateTimes == {EndDate + Minute, EndDate + 2 * Minute}

\* AlertSchema.pre('save'): resolvedAt of a document whose status was
\* modified to 'resolved' and that has none
PreSave(alert, modified, now) ==
    IF modified /\ alert.status = "resolved" /\ alert.resolvedAt = <<>>
    THEN [alert EXCEPT !.resolvedAt = <<now>>]
    ELSE alert

\* socket 'update-alert': Alert.findById, the assignments, alert.save()
UpdateAlertSocket(i, status) ==
    /\ i \in DOMAIN db.alerts
    /\ writes < MaxUpdates
    /\ LET alert == db.alerts[i]
           set == [alert EXCEPT !.status = status,
                                !.resolvedAt =
                                    IF status = "resolved" /\ @ = <<>> THEN <<clock>> ELSE @]
       IN  db' = [db EXCEPT !.alerts[i] = PreSave(set, status # alert.status, clock)]
    /\ writes' = writes + 1
    /\ UNCHANGED <<clock, callVars, avail, loopVars, unitVars, liveVars>>

\* PUT /:id: Alert.findByIdAndUpdate(id, { $set: updateData }), which runs no
\* save hook; a request without a status leaves the status as it is
UpdateAlertRest(i, status) ==
    /\ i \in DOMAIN db.alerts
    /\ writes < MaxUpdates
    /\ db' = [db EXCEPT !.alerts[i].status = IF status = None THEN @ ELSE status]
    /\ writes' = writes + 1
    /\ UNCHANGED <<clock, callVars, avail, loopVars, unitVars, liveVars>>

NextAlertUpdates ==
    \/ \E t \in UpdateTimes : Tick(t)
    \/ \E i \in 1..Len(InitialAlerts), s \in AlertStatusKeys : UpdateAlertSocket(i, s)
    \/ \E i \in 1..Len(InitialAlerts), s \in AlertStatusKeys \cup {None} :
           UpdateAlertRest(i, s)

SpecAlertUpdates == InitAlerts /\ [][NextAlertUpdates]_vars

\* every resolved alert has its resolvedAt, so the response-time average
\* counts every alert that statusCounts.resolved counts
ResolvedHaveTime ==
    /\ \A i \in DOMAIN db.alerts :
           db.alerts[i].status = "resolved" => db.alerts[i].resolvedAt # <<>>
    /\ Len(SelectSeq(db.alerts, TimedResolved)) =
           AnalyzeAlertsOf(db.alerts).statusCounts["resolved"]

\* a resolvedAt that is set stays as it is
ResolvedAtKept ==
    \A i \in DOMAIN db.alerts :
        db.alerts[i].resolvedAt # <<>> => db'.alerts[i].resolvedAt = db.alerts[i].resolvedAt

\* C30: after any sequence of status changes through 'update-alert' and
\* PUT /:id, every alert whose status is 'resolved' has resolvedAt set, and a
\* resolvedAt that is set is never changed by a later update
C30_ResolvedAtSet ==
    /\ []ResolvedHaveTime
    /\ [][ResolvedAtKept]_vars

====
